---- MODULE Spec2Model ----
(***************************************************************************)
(* A model of en/parser/nltk_lite/semantics/logic.py: the expression       *)
(* classes of the lambda calculus / first order logic engine, their        *)
(* rewriting operations (free, replace, alpha_convert, equals, simplify,   *)
(* infixify, skolemise, __str__) and the recursive-descent Parser.         *)
(*                                                                         *)
(* Text is a sequence of one-character strings, so that __str__, process,  *)
(* token and is_indvar work on characters as the Python code does.  A      *)
(* Variable or Constant is its name (both compare by name only).  An       *)
(* Expression is a record whose field "class" is the Python class.         *)
(***************************************************************************)
EXTENDS Integers, Sequences, FiniteSets

VARIABLES
    counter,    \* VariableBinderExpression._counter._value (class attribute)
    buffer,     \* Parser.buffer
    constants,  \* Parser.constants
    call,       \* the operation in progress or just finished, with its arguments
    result,     \* what that operation returned or raised
    heap,       \* the Expression objects in being, by identity (HeapSpec)
    tagger      \* the fields of an Ngram tagger of tag/ngram.py (TaggerSpec)

vars == <<counter, buffer, constants, call, result, heap, tagger>>

(***************************************************************************)
(* Bounds of the model.                                                    *)
(***************************************************************************)

\* The shared counter is explored up to this value: no operation is started
\* once the counter has passed it.
MaxCounter == 2

\* Depth of nested simplify calls the interpreter allows before it raises
\* RecursionError (the recursion limit of the Python run time).
RecursionLimit == 40

\* feed() is called on a parser at most this many times, and only while its
\* buffer holds at most MaxBuffer characters.
MaxFeeds == 3

MaxBuffer == 6

(***************************************************************************)
(* utilities.Counter, used by logic.py: get() increments and returns.      *)
(***************************************************************************)

\* Counter(): the initial value of a new counter.
CounterInit == 0

\* Counter.get(): the value returned, which is also the new stored value.
CounterGet(c) == c + 1

(***************************************************************************)
(* Characters and names.                                                   *)
(***************************************************************************)

DigitChars == <<"0", "1", "2", "3", "4", "5", "6", "7", "8", "9">>

Digits == {DigitChars[i] : i \in 1..10}

\* str(n) for a non-negative integer n, as in "z" + str(self._counter.get()).
RECURSIVE str_int(_)
str_int(n) ==
    IF n < 10 THEN <<DigitChars[n + 1]>>
    ELSE str_int(n \div 10) \o <<DigitChars[(n % 10) + 1]>>

\* str.isdigit(): non-empty and every character a digit.
isdigit(s) == Len(s) > 0 /\ \A i \in 1..Len(s) : s[i] \in Digits

\* A slip that finds no individual variable.
is_indvar_never(expr) == FALSE

\* is_indvar(expr): first character one of w x y z, the rest (if any) digits.
is_indvar(expr) ==
    LET res == expr[1] \in {"w", "x", "y", "z"}
    IN  IF Len(expr) > 1 THEN res /\ isdigit(Tail(expr)) ELSE res

(***************************************************************************)
(* The expression classes.                                                 *)
(***************************************************************************)

VariableExpression(variable) ==
    [class |-> "VariableExpression", variable |-> variable]

IndVariableExpression(variable) ==
    [class |-> "IndVariableExpression", variable |-> variable]

ConstantExpression(constant) ==
    [class |-> "ConstantExpression", constant |-> constant]

Operator(operator) ==
    [class |-> "Operator", constant |-> operator]

\* self.__class__(variable, term) of a VariableBinderExpression subclass.
VariableBinderExpression(class, variable, term) ==
    [class |-> class, variable |-> variable, term |-> term]

LambdaExpression(variable, term) ==
    VariableBinderExpression("LambdaExpression", variable, term)

SomeExpression(variable, term) ==
    VariableBinderExpression("SomeExpression", variable, term)

AllExpression(variable, term) ==
    VariableBinderExpression("AllExpression", variable, term)

ApplicationExpression(first, second) ==
    [class |-> "ApplicationExpression", first |-> first, second |-> second]

\* isinstance(e, VariableExpression): IndVariableExpression is a subclass.
IsVariableExpression(e) ==
    e.class \in {"VariableExpression", "IndVariableExpression"}

\* isinstance(e, ConstantExpression): Operator is a subclass.
IsConstantExpression(e) == e.class \in {"ConstantExpression", "Operator"}

IsOperator(e) == e.class = "Operator"

IsApplicationExpression(e) == e.class = "ApplicationExpression"

BinderClasses == {"LambdaExpression", "SomeExpression", "AllExpression"}

IsVariableBinderExpression(e) == e.class \in BinderClasses

IsLambdaExpression(e) == e.class = "LambdaExpression"

(***************************************************************************)
(* variables(), free().                                                    *)
(***************************************************************************)

RECURSIVE variables(_)
variables(self) ==
    CASE IsVariableExpression(self) -> {self.variable}
      [] IsConstantExpression(self) -> {}
      [] IsVariableBinderExpression(self) ->
            {self.variable} \cup variables(self.term)
      [] IsApplicationExpression(self) ->
            variables(self.first) \cup variables(self.second)

RECURSIVE free(_)
free(self) ==
    CASE IsVariableExpression(self) -> {self.variable}
      [] IsConstantExpression(self) -> {}
      [] IsVariableBinderExpression(self) -> free(self.term) \ {self.variable}
      [] IsApplicationExpression(self) ->
            free(self.first) \cup free(self.second)

(***************************************************************************)
(* replace() and alpha_convert().  The operations that may mint a name     *)
(* take the value of the shared counter and return the result with the     *)
(* counter's new value: [e |-> expression, c |-> counter].                 *)
(***************************************************************************)

\* A slip that never sees the binder as shadowing.
Shadows_never(self, variable) == FALSE

\* VariableBinderExpression.replace, line 376: the binder shadows variable.
Shadows(self, variable) == self.variable = variable

\* A slip that never renames the bound variable.
Captures_never(self, expression) == FALSE

\* VariableBinderExpression.replace, line 378: the binder would capture.
Captures(self, expression) == self.variable \in free(expression)

\* Line 379: the name minted from the counter value n that get() returned.
MintedName(n) == <<"z">> \o str_int(n)

RECURSIVE replace(_, _, _, _)

\* VariableBinderExpression.alpha_convert(newvar).
alpha_convert(self, newvar, c) ==
    LET t == replace(self.term, self.variable, VariableExpression(newvar), c)
    IN  [e |-> VariableBinderExpression(self.class, newvar, t.e), c |-> t.c]

replace(self, variable, expression, c) ==
    CASE IsVariableExpression(self) ->
            IF self.variable = variable
            THEN [e |-> expression, c |-> c]
            ELSE [e |-> self, c |-> c]
      [] IsConstantExpression(self) -> [e |-> self, c |-> c]
      [] IsApplicationExpression(self) ->
            LET f == replace(self.first, variable, expression, c)
                s == replace(self.second, variable, expression, f.c)
            IN  [e |-> ApplicationExpression(f.e, s.e), c |-> s.c]
      [] IsVariableBinderExpression(self) ->
            IF Shadows(self, variable) THEN [e |-> self, c |-> c]
            ELSE
                LET conv == IF Captures(self, expression)
                            THEN alpha_convert(self,
                                               MintedName(CounterGet(c)),
                                               CounterGet(c))
                            ELSE [e |-> self, c |-> c]
                    t == replace(conv.e.term, variable, expression, conv.c)
                IN  [e |-> VariableBinderExpression(self.class,
                                                    conv.e.variable, t.e),
                     c |-> t.c]

(***************************************************************************)
(* equals(): equality modulo alphabetic variance.  Relabelling calls       *)
(* replace, so a comparison may advance the counter: [b |-> , c |-> ].     *)
(***************************************************************************)

RECURSIVE equals(_, _, _)

\* A slip that compares the bodies without relabelling.
relabel_none(self, other, c) == [e |-> other.term, c |-> c]

\* VariableBinderExpression._relabel(other).
relabel(self, other, c) ==
    replace(other.term, other.variable, VariableExpression(self.variable), c)

equals(self, other, c) ==
    CASE IsVariableExpression(self) ->
            [b |-> IsVariableExpression(other)
                   /\ self.variable = other.variable,
             c |-> c]
      [] IsConstantExpression(self) ->
            [b |-> self.class = other.class /\ self.constant = other.constant,
             c |-> c]
      [] IsApplicationExpression(self) ->
            IF self.class = other.class
            THEN LET f == equals(self.first, other.first, c)
                 IN  IF f.b THEN equals(self.second, other.second, f.c) ELSE f
            ELSE [b |-> FALSE, c |-> c]
      [] IsVariableBinderExpression(self) ->
            IF self.class = other.class
            THEN IF self.variable = other.variable
                 THEN equals(self.term, other.term, c)
                 ELSE LET relabeled == relabel(self, other, c)
                      IN  equals(self.term, relabeled.e, relabeled.c)
            ELSE [b |-> FALSE, c |-> c]

(***************************************************************************)
(* simplify(): beta reduction.  d is the number of nested simplify calls   *)
(* the interpreter still allows; when it is used up the call raises        *)
(* RecursionError: [e |-> , c |-> , ok |-> FALSE].                         *)
(***************************************************************************)

\* A slip that reduces only under a closed abstraction.
IsRedex_closed(first) == IsLambdaExpression(first) /\ free(first) = {}

\* A slip that never reduces.
IsRedex_never(first) == FALSE

\* ApplicationExpression.simplify, line 527: the simplified functor is a
\* lambda abstraction, so the application is a redex.
IsRedex(first) == IsLambdaExpression(first)

RECURSIVE simplify(_, _, _)
simplify(self, c, d) ==
    IF d = 0 THEN [e |-> self, c |-> c, ok |-> FALSE]
    ELSE
    CASE IsVariableExpression(self) -> [e |-> self, c |-> c, ok |-> TRUE]
      [] IsConstantExpression(self) -> [e |-> self, c |-> c, ok |-> TRUE]
      [] IsVariableBinderExpression(self) ->
            LET t == simplify(self.term, c, d - 1)
            IN  [e |-> VariableBinderExpression(self.class, self.variable, t.e),
                 c |-> t.c, ok |-> t.ok]
      [] IsApplicationExpression(self) ->
            LET first == simplify(self.first, c, d - 1)
                second == simplify(self.second, first.c, d - 1)
                r == replace(first.e.term, first.e.variable, second.e, second.c)
            IN  IF ~first.ok THEN first
                ELSE IF ~second.ok THEN second
                ELSE IF IsRedex(first.e) THEN simplify(r.e, r.c, d - 1)
                ELSE [e |-> ApplicationExpression(first.e, second.e),
                      c |-> second.c, ok |-> TRUE]

(***************************************************************************)
(* skolemise().  bound_vars is one mutable set shared by the calls that    *)
(* receive it, and counter is one Counter object, so both are threaded:    *)
(* [e, bound_vars, k, c, introduced], with k the value of the local        *)
(* counter, c the value of the shared alpha-conversion counter and         *)
(* introduced the variables chosen for the dropped existentials, in the    *)
(* order in which SomeExpression._skolemise chose them.                    *)
(***************************************************************************)

\* A slip that never sees the variable as already in use.
Collides_never(self, bound_vars) == FALSE

\* SomeExpression._skolemise, line 432: the variable is already in use.
Collides(self, bound_vars) == self.variable \in bound_vars

\* Line 433: the name minted from the value n that counter.get() returned.
SkolemName(n) == <<"_", "s">> \o str_int(n)

\* A slip that mints the name on a collision but leaves the body as it is.
SomeChoice_unsubstituted(self, bound_vars, k, c) ==
    IF Collides(self, bound_vars)
    THEN [var |-> SkolemName(CounterGet(k)), term |-> self.term,
          k |-> CounterGet(k), c |-> c]
    ELSE [var |-> self.variable, term |-> self.term, k |-> k, c |-> c]

\* Lines 432-437: the variable and the term the existential continues with.
SomeChoice(self, bound_vars, k, c) ==
    IF Collides(self, bound_vars)
    THEN LET var == SkolemName(CounterGet(k))
             t == replace(self.term, self.variable, VariableExpression(var), c)
         IN  [var |-> var, term |-> t.e, k |-> CounterGet(k), c |-> t.c]
    ELSE [var |-> self.variable, term |-> self.term, k |-> k, c |-> c]

\* A slip that keeps the quantifier around the skolemised body.
SkolemisedSome_kept(var, body) == SomeExpression(var, body)

\* Line 439: the skolemised body is the whole result; the existential
\* quantifier is not rebuilt.
SkolemisedSome(var, body) == body

RECURSIVE _skolemise(_, _, _, _)
_skolemise(self, bound_vars, k, c) ==
    CASE IsVariableExpression(self) \/ IsConstantExpression(self) ->
            [e |-> self, bound_vars |-> bound_vars, k |-> k, c |-> c,
             introduced |-> <<>>]
      [] IsApplicationExpression(self) ->
            LET first == _skolemise(self.first, bound_vars, k, c)
                second == _skolemise(self.second, first.bound_vars,
                                     first.k, first.c)
            IN  [e |-> ApplicationExpression(first.e, second.e),
                 bound_vars |-> second.bound_vars, k |-> second.k,
                 c |-> second.c,
                 introduced |-> first.introduced \o second.introduced]
      [] self.class \in {"LambdaExpression", "AllExpression"} ->
            LET bv == bound_vars \cup {self.variable}
                t == _skolemise(self.term, bv, k, c)
            IN  [e |-> VariableBinderExpression(self.class, self.variable, t.e),
                 bound_vars |-> bound_vars, k |-> t.k, c |-> t.c,
                 introduced |-> t.introduced]
      [] self.class = "SomeExpression" ->
            LET ch == SomeChoice(self, bound_vars, k, c)
                t == _skolemise(ch.term, bound_vars \cup {ch.var}, ch.k, ch.c)
            IN  [e |-> SkolemisedSome(ch.var, t.e),
                 bound_vars |-> t.bound_vars, k |-> t.k, c |-> t.c,
                 introduced |-> <<ch.var>> \o t.introduced]

\* Expression.skolemise(): self._skolemise(set(), Counter()).
skolemise(self, c) == _skolemise(self, {}, CounterInit, c)

(***************************************************************************)
(* __str__().                                                              *)
(***************************************************************************)

\* The class attribute PREFIX of the three binder classes.
PREFIX(class) ==
    CASE class = "LambdaExpression" -> <<"\\">>
      [] class = "SomeExpression" -> <<"s", "o", "m", "e", " ">>
      [] class = "AllExpression" -> <<"a", "l", "l", " ">>

\* s[1:-1]
StripEnds(s) == IF Len(s) < 2 THEN <<>> ELSE SubSeq(s, 2, Len(s) - 1)

\* ApplicationExpression.__str__, lines 550-552: print ((M N) P) as (M N P).
Flattens(self) ==
    IsApplicationExpression(self.first) /\ ~IsOperator(self.second)

RECURSIVE str(_, _)
str(self, continuation) ==
    CASE IsVariableExpression(self) -> self.variable
      [] IsConstantExpression(self) -> self.constant
      [] IsVariableBinderExpression(self) ->
            LET prefix == IF continuation THEN <<" ">> ELSE PREFIX(self.class)
            IN  IF self.term.class = self.class
                THEN prefix \o self.variable \o str(self.term, TRUE)
                ELSE prefix \o self.variable \o <<".">> \o str(self.term, FALSE)
      [] IsApplicationExpression(self) ->
            LET s1 == str(self.first, FALSE)
                strFirst == IF Flattens(self) THEN StripEnds(s1) ELSE s1
            IN  <<"(">> \o strFirst \o <<" ">> \o str(self.second, FALSE)
                \o <<")">>

(***************************************************************************)
(* The properties fun and op of an ApplicationExpression, lines 481-496.   *)
(***************************************************************************)

\* A slip that takes the first child for the functor without descending.
_functor_first(self) == self.first

\* ApplicationExpression._functor
RECURSIVE _functor(_)
_functor(self) ==
    IF IsApplicationExpression(self.first)
    THEN _functor(self.first)
    ELSE self.first

\* ApplicationExpression._operator: the operator's text, or AttributeError.
_operator(self) ==
    LET functor == _functor(self)
    IN  IF IsOperator(functor)
        THEN [kind |-> "ok", v |-> str(functor, FALSE)]
        ELSE [kind |-> "AttributeError"]

(***************************************************************************)
(* infixify(), lines 195-196, 277-278, 394-395 and 534-540.                *)
(***************************************************************************)

N_not == <<"n", "o", "t">>

\* A slip that swaps under every Operator, `not` included.
SwapsOperands_every(first) == IsOperator(first)

\* isinstance(first, Operator) and not str(first) == "not"  (line 537)
SwapsOperands(first) == IsOperator(first) /\ str(first, FALSE) # N_not

RECURSIVE infixify(_)
infixify(self) ==
    CASE IsVariableExpression(self) -> self
      [] IsConstantExpression(self) -> self
      [] IsVariableBinderExpression(self) ->
            VariableBinderExpression(self.class, self.variable,
                                     infixify(self.term))
      [] IsApplicationExpression(self) ->
            LET first == infixify(self.first)
                second == infixify(self.second)
            IN  IF SwapsOperands(first)
                THEN ApplicationExpression(second, first)
                ELSE ApplicationExpression(first, second)

(***************************************************************************)
(* The Parser: tokens, process(), token(), isVariable(), __next__().       *)
(***************************************************************************)

\* Parser.LAMBDA (LAMBDA itself is a reserved word here).
Parser_LAMBDA == <<"\\">>

SOME == <<"s", "o", "m", "e">>

ALL == <<"a", "l", "l">>

DOT == <<".">>

OPEN == <<"(">>

CLOSE == <<")">>

EQ == <<"=">>

\* Parser.BOOL.  OPS is the same list object, so the append of EQ in line 575
\* adds "=" to BOOL as well.
BOOL == {<<"a", "n", "d">>, <<"o", "r">>, <<"n", "o", "t">>,
         <<"i", "m", "p", "l", "i", "e", "s">>, <<"i", "f", "f">>, EQ}

OPS == BOOL

\* What process() makes of one character of the buffer.
ProcessChar(ch) ==
    CASE ch \in {"\t", "\n"} -> <<" ">>
      [] ch \in {"\\", ".", "(", ")"} -> <<" ", ch, " ">>
      [] OTHER -> <<ch>>

\* Parser.process(): the six str.replace calls, applied to the whole buffer.
\* No replacement produces a character that a later one rewrites, so the
\* result is the concatenation of what each character becomes; the buffer
\* is halved to keep the evaluation shallow.
RECURSIVE process(_)
process(buf) ==
    IF buf = <<>> THEN <<>>
    ELSE IF Len(buf) = 1 THEN ProcessChar(buf[1])
    ELSE LET h == Len(buf) \div 2
         IN  process(SubSeq(buf, 1, h)) \o process(SubSeq(buf, h + 1, Len(buf)))

\* The index of the first space of s, 0 when it has none.
RECURSIVE FirstSpace(_, _)
FirstSpace(s, i) ==
    IF i > Len(s) THEN 0 ELSE IF s[i] = " " THEN i ELSE FirstSpace(s, i + 1)

\* s.split(" ", 1): one piece when s holds no space, else the text before
\* and the text after the first space.
split1(s) ==
    LET i == FirstSpace(s, 1)
    IN  IF i = 0 THEN <<s>>
        ELSE <<SubSeq(s, 1, i - 1), SubSeq(s, i + 1, Len(s))>>

\* The while loop of Parser.token(), lines 621-631, on the local buffer.  An
\* iteration that finds no token and leaves an empty local buffer repeats
\* itself for ever: the call does not return.
RECURSIVE TokenLoop(_)
TokenLoop(buf) ==
    LET seq == split1(buf)
        tok == seq[1]
        rest == IF Len(seq) = 1 THEN <<>> ELSE seq[2]
    IN  IF tok # <<>> THEN [kind |-> "ok", tok |-> tok, buffer |-> rest]
        ELSE IF buf = <<>> THEN [kind |-> "hang"]
        ELSE TokenLoop(rest)

\* A slip that leaves out the test for an empty buffer.
token_unchecked(buf, destructive) ==
    LET t == TokenLoop(buf)
    IN  IF t.kind = "ok" /\ ~destructive THEN [t EXCEPT !.buffer = buf] ELSE t

\* Parser.token(destructive): [kind |-> "ok", tok, buffer] with the buffer the
\* parser is left with, [kind |-> "Error", msg] or [kind |-> "hang"].
token(buf, destructive) ==
    IF buf = <<>> THEN [kind |-> "Error", msg |-> "end of stream", buffer |-> buf]
    ELSE LET t == TokenLoop(buf)
         IN  IF t.kind = "ok" /\ ~destructive
             THEN [t EXCEPT !.buffer = buf]
             ELSE t

\* A slip that takes every token for a variable.
isVariable_any(tok, consts) == TRUE

\* Parser.isVariable(token).
isVariable(tok, consts) ==
    tok \notin ({Parser_LAMBDA, SOME, ALL, DOT, OPEN, CLOSE, EQ} \cup consts \cup BOOL)

\* Lines 657-662: the class for a binder keyword.
factory(tok) ==
    CASE tok = Parser_LAMBDA -> "LambdaExpression"
      [] tok = SOME -> "SomeExpression"
      [] tok = ALL -> "AllExpression"

\* A slip that nests the binders with the first variable innermost.
RECURSIVE BindAll_reversed(_, _, _)
BindAll_reversed(class, vs, term) ==
    IF vs = <<>> THEN term
    ELSE BindAll_reversed(class, Tail(vs),
                          VariableBinderExpression(class, Head(vs), term))

\* Lines 676-678: the binders over term, last variable innermost.
RECURSIVE BindAll(_, _, _)
BindAll(class, vs, term) ==
    IF vs = <<>> THEN term
    ELSE BindAll(class, SubSeq(vs, 1, Len(vs) - 1),
                 VariableBinderExpression(class, vs[Len(vs)], term))

\* A slip that leaves the first pair in the order read.
FirstPair_unswapped(first, second) == ApplicationExpression(first, second)

\* Lines 691-694: the first pair of an application; an Operator in second
\* place becomes the functor.
FirstPair(first, second) ==
    IF IsOperator(second)
    THEN ApplicationExpression(second, first)
    ELSE ApplicationExpression(first, second)

\* A slip that makes every Operator among the remaining arguments the
\* functor of what was read before it.
RECURSIVE ApplyAll_swapping(_, _)
ApplyAll_swapping(accum, exps) ==
    IF exps = <<>> THEN accum
    ELSE ApplyAll_swapping(
             IF IsOperator(Head(exps))
             THEN ApplicationExpression(Head(exps), accum)
             ELSE ApplicationExpression(accum, Head(exps)),
             Tail(exps))

\* Lines 695-697: the remaining arguments, applied left to right.
RECURSIVE ApplyAll(_, _)
ApplyAll(accum, exps) ==
    IF exps = <<>> THEN accum
    ELSE ApplyAll(ApplicationExpression(accum, Head(exps)), Tail(exps))

UnexpectedToken(tok, buf) ==
    [kind |-> "Error", msg |-> "parse error, unexpected token", tok |-> tok,
     buffer |-> buf]

RECURSIVE next(_, _)
RECURSIVE BinderVars(_, _, _)
RECURSIVE AppArgs(_, _, _)

\* Lines 667-670: the variables after the first, while the lookahead token
\* is a variable.  [kind |-> "ok", vars, buffer] or what token() raised.
BinderVars(buf, consts, vs) ==
    LET peek == token(buf, FALSE)
    IN  IF peek.kind # "ok" THEN peek
        ELSE IF isVariable(peek.tok, consts)
        THEN BinderVars(token(buf, TRUE).buffer, consts, Append(vs, peek.tok))
        ELSE [kind |-> "ok", vars |-> vs, buffer |-> buf]

\* Lines 686-688: the expressions up to the closing parenthesis.
AppArgs(buf, consts, exps) ==
    LET peek == token(buf, FALSE)
        exp == next(buf, consts)
    IN  IF peek.kind # "ok" THEN peek
        ELSE IF peek.tok # CLOSE
        THEN IF exp.kind # "ok" THEN exp
             ELSE AppArgs(exp.buffer, consts, Append(exps, exp.e))
        ELSE [kind |-> "ok", exps |-> exps, buffer |-> buf]

\* Parser.__next__(): [kind |-> "ok", e, buffer], or what was raised, with
\* the buffer as the parser keeps it.
next(buf, consts) ==
    LET t == token(buf, TRUE)
    IN
    IF t.kind # "ok" THEN t
    ELSE IF t.tok \in {Parser_LAMBDA, SOME, ALL} THEN
        LET v1 == token(t.buffer, TRUE)
            vs == BinderVars(v1.buffer, consts, <<v1.tok>>)
            dot == token(vs.buffer, TRUE)
            term == next(dot.buffer, consts)
        IN  IF v1.kind # "ok" THEN v1
            ELSE IF vs.kind # "ok" THEN vs
            ELSE IF dot.kind # "ok" THEN dot
            ELSE IF dot.tok # DOT THEN UnexpectedToken(dot.tok, dot.buffer)
            ELSE IF term.kind # "ok" THEN term
            ELSE [kind |-> "ok", e |-> BindAll(factory(t.tok), vs.vars, term.e),
                  buffer |-> term.buffer]
    ELSE IF t.tok = OPEN THEN
        LET first == next(t.buffer, consts)
            second == next(first.buffer, consts)
            args == AppArgs(second.buffer, consts, <<>>)
            close == token(args.buffer, TRUE)
        IN  IF first.kind # "ok" THEN first
            ELSE IF second.kind # "ok" THEN second
            ELSE IF args.kind # "ok" THEN args
            ELSE [kind |-> "ok",
                  e |-> ApplyAll(FirstPair(first.e, second.e), args.exps),
                  buffer |-> close.buffer]
    ELSE IF t.tok \in consts THEN
        [kind |-> "ok", e |-> ConstantExpression(t.tok), buffer |-> t.buffer]
    ELSE IF t.tok \in OPS THEN
        [kind |-> "ok", e |-> Operator(t.tok), buffer |-> t.buffer]
    ELSE IF is_indvar(t.tok) THEN
        [kind |-> "ok", e |-> IndVariableExpression(t.tok), buffer |-> t.buffer]
    ELSE IF isVariable(t.tok, consts) THEN
        [kind |-> "ok", e |-> VariableExpression(t.tok), buffer |-> t.buffer]
    ELSE UnexpectedToken(t.tok, t.buffer)

(***************************************************************************)
(* Names and texts used as inputs.                                         *)
(***************************************************************************)
N_x == <<"x">>
N_y == <<"y">>
N_z == <<"z">>
N_z1 == <<"z", "1">>
N_z2 == <<"z", "2">>
N_p == <<"p">>
N_P == <<"P">>
N_Q == <<"Q">>
N_man == <<"m", "a", "n">>
N_loves == <<"l", "o", "v", "e", "s">>
N_s1 == <<"_", "s", "1">>
N_and == <<"a", "n", "d">>
N_or == <<"o", "r">>

\* next(Parser(data)): the expression a new parser without declared
\* constants reads from data, as the tests build their terms.
Parsed(data) == next(process(data), {}).e

\* The Church numerals and arithmetic of runtests(), lines 789-797.
\* \f x.x
Text_zero == <<"\\", "f", " ", "x", ".", "x">>

zero == Parsed(Text_zero)

\* \f x.(f x)
Text_one == <<"\\", "f", " ", "x", ".", "(", "f", " ", "x", ")">>

one == Parsed(Text_one)

\* \f x.(f (f x))
Text_two ==
    <<"\\", "f", " ", "x", ".", "(", "f", " ", "(", "f", " ", "x", ")", ")">>

two == Parsed(Text_two)

\* \f x.(f (f (f x)))
Text_three ==
    <<"\\", "f", " ", "x", ".", "(", "f", " ", "(", "f", " ", "(", "f", " ",
    "x", ")", ")", ")">>

three == Parsed(Text_three)

\* \f x.(f (f (f (f x))))
Text_four ==
    <<"\\", "f", " ", "x", ".", "(", "f", " ", "(", "f", " ", "(", "f", " ",
    "(", "f", " ", "x", ")", ")", ")", ")">>

four == Parsed(Text_four)

\* \n f x.(f (n f x))
Text_succ ==
    <<"\\", "n", " ", "f", " ", "x", ".", "(", "f", " ", "(", "n", " ", "f",
    " ", "x", ")", ")">>

succ == Parsed(Text_succ)

\* \m n f x.(m f (n f x))
Text_plus ==
    <<"\\", "m", " ", "n", " ", "f", " ", "x", ".", "(", "m", " ", "f", " ",
    "(", "n", " ", "f", " ", "x", ")", ")">>

plus == Parsed(Text_plus)

\* \m n f.(m (n f))
Text_mult ==
    <<"\\", "m", " ", "n", " ", "f", ".", "(", "m", " ", "(", "n", " ", "f",
    ")", ")">>

mult == Parsed(Text_mult)

\* \n f x.(n \g h.(h (g f)) \u.x \u.u)
Text_pred ==
    <<"\\", "n", " ", "f", " ", "x", ".", "(", "n", " ", "\\", "g", " ", "h",
    ".", "(", "h", " ", "(", "g", " ", "f", ")", ")", " ", "\\", "u", ".",
    "x", " ", "\\", "u", ".", "u", ")">>

pred == Parsed(Text_pred)

(***************************************************************************)
(* Input universes: every term of at most MaxNodes nodes over a few        *)
(* leaves, as a parser can produce them (names that fit is_indvar are      *)
(* IndVariableExpressions), with the terms of the tests added.             *)
(***************************************************************************)

\* The largest number of nodes (leaves, binders, applications) of a
\* generated term.
MaxNodes == 4

RECURSIVE TermsOfSize(_, _, _)
TermsOfSize(n, leaves, bound) ==
    IF n = 1 THEN leaves
    ELSE {VariableBinderExpression(k, v, t) :
             k \in BinderClasses, v \in bound,
             t \in TermsOfSize(n - 1, leaves, bound)}
         \cup UNION {{ApplicationExpression(f, a) :
                         f \in TermsOfSize(i, leaves, bound),
                         a \in TermsOfSize(n - 1 - i, leaves, bound)} :
                     i \in 1..(n - 2)}

TermsUpTo(n, leaves, bound) ==
    UNION {TermsOfSize(i, leaves, bound) : i \in 1..n}

Var_x == IndVariableExpression(N_x)

Var_y == IndVariableExpression(N_y)

Var_z1 == IndVariableExpression(N_z1)

\* kind x.(h x): the binders of the alpha-equivalence examples.
BinderOver(k, v, h) ==
    VariableBinderExpression(k, v,
        ApplicationExpression(h, IndVariableExpression(v)))

Heads == {ConstantExpression(N_P), ConstantExpression(N_Q),
          VariableExpression(N_P), VariableExpression(N_Q),
          VariableExpression(N_man)}

\* kind v.x: for v = y the body holds the other binder's variable free.
BinderOfX(k, v) == VariableBinderExpression(k, v, Var_x)

EqualsTerms ==
    {BinderOver(k, v, h) : k \in BinderClasses, v \in {N_x, N_y}, h \in Heads}
    \cup {BinderOfX(k, v) : k \in BinderClasses, v \in {N_x, N_y}}

\* \y.(x y), and the term that capture would give, \y.(y y).
CaptureTerm == LambdaExpression(N_y, ApplicationExpression(Var_x, Var_y))

CapturedTerm == LambdaExpression(N_y, ApplicationExpression(Var_y, Var_y))

ReplaceTerms == TermsUpTo(MaxNodes, {Var_x, Var_y, Var_z1}, {N_y})

ReplaceVariables == {N_x, N_y}

ReplaceExpressions ==
    {Var_x, Var_y, Var_z1, ApplicationExpression(Var_y, Var_z1)}

\* The applications of runtests(), lines 798-806, on the parsed numerals.
ChurchTerms ==
    {ApplicationExpression(succ, zero),
     ApplicationExpression(succ, one),
     ApplicationExpression(ApplicationExpression(plus, one), two),
     ApplicationExpression(ApplicationExpression(mult, two), two),
     ApplicationExpression(pred, ApplicationExpression(pred, four))}

\* (\p.B A) for small B and A.
RedexTerms ==
    {ApplicationExpression(LambdaExpression(N_p, b), a) :
        b \in TermsUpTo(MaxNodes, {VariableExpression(N_p), Var_y, Var_z1},
                        {N_y}),
        a \in {Var_y, Var_z1, LambdaExpression(N_y, Var_y)}}

\* (\x.\x.(x x) 1), the first test of runtests(), line 784.
Text_shadow == <<"(", "\\", "x", ".", "\\", "x", ".", "(", "x", " ", "x", ")", " ", "1", ")">>

ShadowRedex ==
    ApplicationExpression(
        LambdaExpression(N_x, LambdaExpression(N_x,
            ApplicationExpression(Var_x, Var_x))),
        VariableExpression(<<"1">>))

\* Redexes below the root: under each kind of binder and in each operand of
\* an application, and one that reduction creates under a binder.
NestedRedexTerms ==
    LET id_y == ApplicationExpression(LambdaExpression(N_x, Var_x), Var_y)
        P == VariableExpression(N_P)
    IN  {VariableBinderExpression(k, N_y, id_y) : k \in BinderClasses}
        \cup {ApplicationExpression(P, id_y),
              ApplicationExpression(id_y, P),
              ApplicationExpression(ApplicationExpression(P, id_y), id_y),
              SomeExpression(N_y, AllExpression(N_x, ApplicationExpression(P, id_y))),
              ApplicationExpression(
                  LambdaExpression(N_p, SomeExpression(N_y,
                      ApplicationExpression(VariableExpression(N_p), Var_y))),
                  LambdaExpression(N_x, Var_x))}

\* (\x.(x x) \x.(x x)): a term without a normal form.
OmegaTerm ==
    ApplicationExpression(
        LambdaExpression(N_x, ApplicationExpression(Var_x, Var_x)),
        LambdaExpression(N_x, ApplicationExpression(Var_x, Var_x)))

\* some x.(man x)
SomeManTerm ==
    SomeExpression(N_x, ApplicationExpression(VariableExpression(N_man), Var_x))

\* (\x.some y.y \x.some y.y): existentials under different binders.
SiblingTerm ==
    ApplicationExpression(LambdaExpression(N_x, SomeExpression(N_y, Var_y)),
                          LambdaExpression(N_x, SomeExpression(N_y, Var_y)))

\* all x.some x.(P x): the existential's variable is bound by the universal.
AllSomeTerm ==
    AllExpression(N_x, SomeExpression(N_x,
        ApplicationExpression(ConstantExpression(N_P), Var_x)))

\* (some x.x some x.x): the second existential meets the variable of the
\* first.
SomePairTerm ==
    ApplicationExpression(SomeExpression(N_x, Var_x),
                          SomeExpression(N_x, Var_x))

\* some x.(some x.x some _s1._s1): the name minted for the second
\* existential is the variable of the third.
SomeMintedTerm ==
    SomeExpression(N_x, ApplicationExpression(
        SomeExpression(N_x, Var_x),
        SomeExpression(N_s1, VariableExpression(N_s1))))

SkolemiseTerms ==
    TermsUpTo(MaxNodes, {Var_x, Var_y, VariableExpression(N_s1)}, {N_x, N_y})
    \cup {SomeManTerm, SiblingTerm, AllSomeTerm, SomePairTerm, SomeMintedTerm}

(***************************************************************************)
(* The engine as a state machine: a caller starts one operation at a time  *)
(* on expressions it holds; the operation runs to its end, leaving its     *)
(* result and the new value of the shared counter.                         *)
(***************************************************************************)

Idle == [op |-> "idle"]

NoResult == [kind |-> "none"]

\* No tagger has been built.
NoTagger == [class |-> "none"]

Init ==
    /\ counter = CounterInit
    /\ buffer = <<>>
    /\ constants = {}
    /\ call = Idle
    /\ result = NoResult
    /\ heap = <<>>
    /\ tagger = NoTagger

\* self == other.  (Each operation below is started by Next when Ready.)
Equals(self, other) ==
    /\ LET r == equals(self, other, counter)
       IN  /\ call' = [op |-> "equals", self |-> self, other |-> other,
                       c0 |-> counter]
           /\ result' = [kind |-> "ok", value |-> r.b]
           /\ counter' = r.c
    /\ UNCHANGED <<buffer, constants, heap, tagger>>

\* self.replace(variable, expression)
Replace(self, variable, expression) ==
    /\ LET r == replace(self, variable, expression, counter)
       IN  /\ call' = [op |-> "replace", self |-> self, variable |-> variable,
                       expression |-> expression, c0 |-> counter]
           /\ result' = [kind |-> "ok", e |-> r.e]
           /\ counter' = r.c
    /\ UNCHANGED <<buffer, constants, heap, tagger>>

\* A slip that gives simplify a limit of its own: three nested calls.
Simplify_bounded(self) ==
    /\ LET r == simplify(self, counter, 3)
       IN  /\ call' = [op |-> "simplify", self |-> self, c0 |-> counter]
           /\ result' = IF r.ok THEN [kind |-> "ok", e |-> r.e]
                        ELSE [kind |-> "RecursionError"]
           /\ counter' = r.c
    /\ UNCHANGED <<buffer, constants, heap, tagger>>

\* self.simplify()
Simplify(self) ==
    /\ LET r == simplify(self, counter, RecursionLimit)
       IN  /\ call' = [op |-> "simplify", self |-> self, c0 |-> counter]
           /\ result' = IF r.ok THEN [kind |-> "ok", e |-> r.e]
                        ELSE [kind |-> "RecursionError"]
           /\ counter' = r.c
    /\ UNCHANGED <<buffer, constants, heap, tagger>>

\* self.skolemise()
Skolemise(self) ==
    /\ LET r == skolemise(self, counter)
       IN  /\ call' = [op |-> "skolemise", self |-> self, c0 |-> counter]
           /\ result' = [kind |-> "ok", e |-> r.e, introduced |-> r.introduced]
           /\ counter' = r.c
    /\ UNCHANGED <<buffer, constants, heap, tagger>>

\* Terms with operators among their leaves: the operands of infixify.
InfixifyLeaves ==
    {Var_x, ConstantExpression(N_P), Operator(N_and), Operator(N_not)}

\* ((and P) (not x)), the tree the parser builds for (P and (not x)).
AndNotTerm ==
    ApplicationExpression(
        ApplicationExpression(Operator(N_and), ConstantExpression(N_P)),
        ApplicationExpression(Operator(N_not), Var_x))

InfixifyTerms ==
    TermsUpTo(MaxNodes, InfixifyLeaves, {N_x})
        \cup {AndNotTerm, LambdaExpression(N_x, AndNotTerm)}

\* self.infixify()
Infixify(self) ==
    /\ call' = [op |-> "infixify", self |-> self, c0 |-> counter]
    /\ result' = [kind |-> "ok", e |-> infixify(self)]
    /\ UNCHANGED <<counter, buffer, constants, heap, tagger>>

\* The applications whose op is read: those of the infixify operands, and
\* longer functor chains with an operator at the head or elsewhere.
OpTerms ==
    {t \in InfixifyTerms : IsApplicationExpression(t)}
        \cup {ApplicationExpression(
                  ApplicationExpression(Var_x, Operator(N_and)),
                  ConstantExpression(N_P)),
              ApplicationExpression(ApplicationExpression(
                  ApplicationExpression(Operator(N_and),
                                        ConstantExpression(N_P)),
                  Var_x), ConstantExpression(N_P)),
              ApplicationExpression(ConstantExpression(N_P),
                  ApplicationExpression(Operator(N_and),
                                        ConstantExpression(N_P)))}

\* self.op
Op(self) ==
    /\ call' = [op |-> "op", self |-> self, c0 |-> counter]
    /\ result' = _operator(self)
    /\ UNCHANGED <<counter, buffer, constants, heap, tagger>>

\* The caller takes the result; the engine is ready for the next call.
Return ==
    /\ call # Idle
    /\ call' = Idle
    /\ result' = NoResult
    /\ UNCHANGED <<counter, buffer, constants, heap, tagger>>

\* A call can start: no operation is in progress, and the counter is within
\* the range explored.
Ready == call = Idle /\ counter <= MaxCounter

Next ==
    \/ Ready /\ \E a \in EqualsTerms, b \in EqualsTerms : Equals(a, b)
    \/ Ready /\ \E t \in ReplaceTerms, v \in ReplaceVariables,
                   e \in ReplaceExpressions : Replace(t, v, e)
    \/ \E t \in ChurchTerms : Ready /\ Simplify(t)
    \/ Ready /\ \E t \in RedexTerms \cup NestedRedexTerms
                          \cup {ShadowRedex, OmegaTerm} : Simplify(t)
    \/ Ready /\ \E t \in SkolemiseTerms : Skolemise(t)
    \/ Ready /\ \E t \in InfixifyTerms : Infixify(t)
    \/ Ready /\ \E t \in OpTerms : Op(t)
    \/ Return

Spec == Init /\ [][Next]_vars

(***************************************************************************)
(* The parser as a state machine: a Parser is built on a text (and,        *)
(* optionally, declared constants), and its caller reads expressions from  *)
(* it, renders and reparses them as main() does, and skolemises them.      *)
(***************************************************************************)

\* The empty text.
Text_empty == <<>>

\* One space: a buffer with no token in it.
Text_blank == <<" ">>

\* \x
Text_open_binder == <<"\\", "x">>

\* \x )
Text_closed_binder == <<"\\", "x", " ", ")">>

\* all x.some y.(some y.(loves x y))
Text_loves_literal ==
    <<"a", "l", "l", " ", "x", ".", "s", "o", "m", "e", " ", "y", ".", "(",
    "s", "o", "m", "e", " ", "y", ".", "(", "l", "o", "v", "e", "s", " ", "x",
    " ", "y", ")", ")">>

\* all x.some y.some y.(loves x y)
Text_loves ==
    <<"a", "l", "l", " ", "x", ".", "s", "o", "m", "e", " ", "y", ".", "s",
    "o", "m", "e", " ", "y", ".", "(", "l", "o", "v", "e", "s", " ", "x", " ",
    "y", ")">>

\* (and or)
Text_and_or == <<"(", "a", "n", "d", " ", "o", "r", ")">>

\* (x y and)
Text_x_y_and == <<"(", "x", " ", "y", " ", "a", "n", "d", ")">>

\* (P and Q)
Text_P_and_Q == <<"(", "P", " ", "a", "n", "d", " ", "Q", ")">>

\* \x y.(x y z), of expressions(), line 756
Text_binder_list ==
    <<"\\", "x", " ", "y", ".", "(", "x", " ", "y", " ", "z", ")">>

\* The texts of the grammar of Parser.__next__ by number of nodes: a
\* variable, a (declared or undeclared) capital and an operator; a binder
\* of each kind; applications of two and of three expressions.
RECURSIVE TextsOfSize(_)
TextsOfSize(n) ==
    IF n = 1 THEN {N_x, N_P, N_and}
    ELSE {PREFIX(k) \o N_x \o DOT \o t :
             k \in BinderClasses, t \in TextsOfSize(n - 1)}
         \cup UNION {{OPEN \o a \o <<" ">> \o b \o CLOSE :
                         a \in TextsOfSize(i), b \in TextsOfSize(n - 1 - i)} :
                     i \in 1..(n - 2)}
         \cup UNION {{OPEN \o a \o <<" ">> \o b \o <<" ">> \o c \o CLOSE :
                         a \in TextsOfSize(ij[1]), b \in TextsOfSize(ij[2]),
                         c \in TextsOfSize(n - 1 - ij[1] - ij[2])} :
                     ij \in {p \in (1..(n - 3)) \X (1..(n - 3)) :
                                p[1] + p[2] <= n - 2}}

N_w == <<"w">>

\* Single tokens: individual variables, other identifiers, the equality
\* sign, a binder keyword, and the two tokens that begin no expression.
AtomTexts ==
    {N_w, <<"w", "1">>, <<"x", "a">>, <<"x", "1", "y">>, N_Q, EQ, SOME, DOT, CLOSE}

\* (P x) \x.x y: three expressions in one text.
Text_several == <<"(", "P", " ", "x", ")", " ", "\\", "x", ".", "x", " ", "y">>

\* \x.x
Text_identity == <<"\\", "x", ".", "x">>

\* (P x)
Text_P_x == <<"(", "P", " ", "x", ")">>

\* The operands of the application texts below: a variable, a capital, an
\* operator, a binder and an application.
OperandTexts == {N_x, N_P, N_and, Text_identity, Text_P_x}

\* (M op N)
InfixText(m, op, n) == OPEN \o m \o <<" ">> \o op \o <<" ">> \o n \o CLOSE

\* (op M N)
PrefixText(op, m, n) == OPEN \o op \o <<" ">> \o m \o <<" ">> \o n \o CLOSE

InfixTexts ==
    {InfixText(m, op, n) : m \in OperandTexts, op \in OPS, n \in OperandTexts}
    \cup {PrefixText(op, m, n) :
             op \in OPS, m \in OperandTexts, n \in OperandTexts}

\* The variable lists of the binder texts below.
VariableLists == {<<N_x, N_y>>, <<N_y, N_x>>, <<N_x, N_x>>, <<N_x, N_y, N_z>>}

\* v1 v2 ... vn
RECURSIVE SpacedList(_)
SpacedList(vs) ==
    IF Len(vs) = 1 THEN vs[1] ELSE vs[1] \o <<" ">> \o SpacedList(Tail(vs))

\* kind v1 v2 ... vn.M
BinderListText(class, vs, m) == PREFIX(class) \o SpacedList(vs) \o DOT \o m

\* kind v1.kind v2. ... kind vn.M
RECURSIVE NestedBinderText(_, _, _)
NestedBinderText(class, vs, m) ==
    IF vs = <<>> THEN m
    ELSE PREFIX(class) \o vs[1] \o DOT \o NestedBinderText(class, Tail(vs), m)

BinderTexts ==
    {BinderListText(k, vs, m) :
        k \in BinderClasses, vs \in VariableLists, m \in OperandTexts}
    \cup {NestedBinderText(k, vs, m) :
             k \in BinderClasses, vs \in VariableLists, m \in OperandTexts}

\* The operands of the applications of three and four expressions.
NaryOperands == {N_x, N_P, N_and}

NaryLists ==
    {<<a, b, c>> : a \in NaryOperands, b \in NaryOperands, c \in NaryOperands}
    \cup {<<a, b, c, d>> : a \in NaryOperands, b \in NaryOperands,
                            c \in NaryOperands, d \in NaryOperands}
    \cup {<<<<"a">>, <<"b">>, N_and, <<"c">>>>}

\* (M N P ...)
NaryText(ms) == OPEN \o SpacedList(ms) \o CLOSE

NaryTexts == {NaryText(ms) : ms \in NaryLists}

\* Binder texts whose variable list holds a token that is not a variable, in
\* first place (kind tok.x) and in second place (kind x tok.x).
NonVariableTokens == {Parser_LAMBDA, DOT, OPEN, CLOSE, SOME, EQ, N_and, N_P}

NonVariableBinderTexts ==
    {PREFIX(k) \o tok \o DOT \o N_x : k \in BinderClasses, tok \in NonVariableTokens}
    \cup {PREFIX(k) \o N_x \o <<" ">> \o tok \o DOT \o N_x :
             k \in BinderClasses, tok \in NonVariableTokens}

ParserTexts ==
    UNION {TextsOfSize(i) : i \in 1..MaxNodes}
    \cup {Text_empty, Text_blank, Text_open_binder, Text_closed_binder,
          Text_loves_literal, Text_loves, Text_and_or, Text_x_y_and,
          Text_P_and_Q, Text_binder_list, Text_several}
    \cup InfixTexts \cup BinderTexts \cup AtomTexts \cup NaryTexts
    \cup NonVariableBinderTexts

\* The pieces fed to a parser: the text (P x) y whole and cut in two, a
\* token, and a binder.
FeedTexts == {<<"(", "P", " ", "x", ")", " ", "y">>, <<"(", "P", " ">>, <<"x", ")", " ", "y">>, N_x, Text_identity}

\* The constants a parser is built with: none; P; or an operator name, a
\* name of the form of an individual variable and a binder keyword.
ParserConstants == {{}, {N_P}, {N_and, N_w, SOME}}

\* Parser(data, constants), lines 577-586, in a process whose shared counter
\* may have been advanced by earlier operations.
ParserInit ==
    /\ counter \in CounterInit..MaxCounter
    /\ constants \in ParserConstants
    /\ \E data \in ParserTexts :
          /\ buffer = process(data)
          /\ call = [op |-> "Parser", data |-> data, feeds |-> 0]
    /\ result = NoResult
    /\ heap = <<>>
    /\ tagger = NoTagger

\* The number of feed() calls made on the parser so far, as the last call
\* on the parser recorded it; no feed() follows a reparse or a skolemise.
Feeds == IF "feeds" \in DOMAIN call THEN call.feeds ELSE MaxFeeds

\* A slip that appends data and leaves out process().
Feed_unprocessed(data) ==
    /\ result.kind # "hang"
    /\ Feeds < MaxFeeds
    /\ Len(buffer) <= MaxBuffer
    /\ buffer' = buffer \o data
    /\ call' = [op |-> "feed", data |-> data, buffer0 |-> buffer,
                feeds |-> Feeds + 1]
    /\ result' = NoResult
    /\ UNCHANGED <<counter, constants, heap, tagger>>

\* parser.feed(data): the buffer with data appended is processed again, as
\* a whole.
Feed(data) ==
    /\ result.kind # "hang"
    /\ Feeds < MaxFeeds
    /\ Len(buffer) <= MaxBuffer
    /\ buffer' = process(buffer \o data)
    /\ call' = [op |-> "feed", data |-> data, buffer0 |-> buffer,
                feeds |-> Feeds + 1]
    /\ result' = NoResult
    /\ UNCHANGED <<counter, constants, heap, tagger>>

\* next(parser).  An Error leaves the buffer as the tokens taken so far left
\* it; a call that does not return leaves the parser with its caller stuck.
ParserNext ==
    /\ result.kind # "hang"
    /\ \E r \in {next(buffer, constants)} :
          /\ call' = [op |-> "next", buffer0 |-> buffer, feeds |-> Feeds]
          /\ result' = CASE r.kind = "ok" -> [kind |-> "ok", e |-> r.e]
                         [] r.kind = "Error" /\ "tok" \in DOMAIN r ->
                               [kind |-> "Error", msg |-> r.msg, tok |-> r.tok]
                         [] r.kind = "Error" /\ "tok" \notin DOMAIN r ->
                               [kind |-> "Error", msg |-> r.msg]
                         [] r.kind = "hang" -> [kind |-> "hang"]
          /\ buffer' = IF r.kind = "hang" THEN buffer ELSE r.buffer
    /\ UNCHANGED <<counter, constants, heap, tagger>>

\* main(), lines 774-777, on the expression just read: ll is read by a new
\* parser from str(l), and l.equals(ll) is asserted.  main() builds the new
\* parser without constants; consts lets it have those of the first one.
RoundTrip(consts) ==
    /\ call.op = "next"
    /\ result.kind = "ok"
    /\ \E r \in {next(process(str(result.e, FALSE)), consts)} :
          /\ call' = [op |-> "reparse", l |-> result.e, constants |-> consts]
          /\ IF r.kind = "ok"
             THEN \E eq \in {equals(result.e, r.e, counter)} :
                     /\ result' = [kind |-> "ok", ll |-> r.e, equal |-> eq.b]
                     /\ counter' = eq.c
             ELSE /\ result' = [kind |-> r.kind]
                  /\ counter' = counter
    /\ UNCHANGED <<buffer, constants, heap, tagger>>

\* next(parser).skolemise()
ParserSkolemise ==
    /\ call.op = "next"
    /\ result.kind = "ok"
    /\ Skolemise(result.e)

\* self.token(destructive)
Token(destructive) ==
    /\ result.kind # "hang"
    /\ \E t \in {token(buffer, destructive)} :
          /\ call' = [op |-> "token", destructive |-> destructive,
                      buffer0 |-> buffer, feeds |-> Feeds]
          /\ result' = CASE t.kind = "ok" -> [kind |-> "ok", tok |-> t.tok]
                         [] t.kind = "Error" -> [kind |-> "Error", msg |-> t.msg]
                         [] t.kind = "hang" -> [kind |-> "hang"]
          /\ buffer' = IF t.kind = "ok" THEN t.buffer ELSE buffer
    /\ UNCHANGED <<counter, constants, heap, tagger>>

ParserStep ==
    \/ \E data \in FeedTexts : Feed(data)
    \/ ParserNext
    \/ \E destructive \in BOOLEAN : Token(destructive)
    \/ \E consts \in ParserConstants :
          consts \subseteq constants /\ RoundTrip(consts)
    \/ ParserSkolemise

ParserSpec == ParserInit /\ [][ParserStep]_vars

(***************************************************************************)
(* The expressions as objects.  A Python expression is an object with an   *)
(* identity; its fields first, second and term refer to other objects.     *)
(* heap[id] is the object id: a record of the expression's class with its  *)
(* name and, for its children, their identities.  A constructor call adds  *)
(* an object; "return self" returns an identity already there.  The        *)
(* operations below are the methods of logic.py on objects; each returns   *)
(* the heap it leaves, the identity r it returns and the counter.          *)
(***************************************************************************)

\* The most objects in being when an operation on objects is started.
MaxHeap == 5

\* cls(...): the constructor adds the object to the heap and returns it.
New(h, obj) == [h |-> Append(h, obj), r |-> Len(h) + 1]

\* The expression an object stands for, read through its fields.
RECURSIVE Value(_, _)
Value(h, id) ==
    LET o == h[id]
    IN  CASE IsVariableBinderExpression(o) ->
                VariableBinderExpression(o.class, o.variable,
                                         Value(h, o.term))
          [] IsApplicationExpression(o) ->
                ApplicationExpression(Value(h, o.first), Value(h, o.second))
          [] OTHER -> o

RECURSIVE h_replace(_, _, _, _, _)

\* A slip that renames the binder where it stands:
\*     self.variable = newvar; self.term = term; return self
h_alpha_convert_in_place(h, self, newvar, c) ==
    LET var == New(h, VariableExpression(newvar))
        t == h_replace(var.h, h[self].term, h[self].variable, var.r, c)
    IN  [h |-> [t.h EXCEPT ![self] =
                   VariableBinderExpression(h[self].class, newvar, t.r)],
         r |-> self, c |-> t.c]

\* VariableBinderExpression.alpha_convert(newvar), lines 383-389.
h_alpha_convert(h, self, newvar, c) ==
    LET var == New(h, VariableExpression(newvar))
        t == h_replace(var.h, h[self].term, h[self].variable, var.r, c)
        n == New(t.h, VariableBinderExpression(h[self].class, newvar, t.r))
    IN  [h |-> n.h, r |-> n.r, c |-> t.c]

\* replace(variable, expression) of the classes, on objects; expression is
\* an object.
h_replace(h, self, variable, expression, c) ==
    LET o == h[self]
    IN  CASE IsVariableExpression(o) ->
                IF o.variable = variable
                THEN [h |-> h, r |-> expression, c |-> c]
                ELSE [h |-> h, r |-> self, c |-> c]
          [] IsConstantExpression(o) -> [h |-> h, r |-> self, c |-> c]
          [] IsApplicationExpression(o) ->
                LET f == h_replace(h, o.first, variable, expression, c)
                    s == h_replace(f.h, o.second, variable, expression, f.c)
                    n == New(s.h, ApplicationExpression(f.r, s.r))
                IN  [h |-> n.h, r |-> n.r, c |-> s.c]
          [] IsVariableBinderExpression(o) ->
                IF Shadows(o, variable) THEN [h |-> h, r |-> self, c |-> c]
                ELSE
                    LET conv == IF Captures(o, Value(h, expression))
                                THEN h_alpha_convert(h, self,
                                         MintedName(CounterGet(c)),
                                         CounterGet(c))
                                ELSE [h |-> h, r |-> self, c |-> c]
                        self1 == conv.h[conv.r]
                        t == h_replace(conv.h, self1.term, variable,
                                       expression, conv.c)
                        n == New(t.h, VariableBinderExpression(o.class,
                                          self1.variable, t.r))
                    IN  [h |-> n.h, r |-> n.r, c |-> t.c]

\* VariableBinderExpression._relabel(other), lines 358-364.
h_relabel(h, self, other, c) ==
    LET var == New(h, VariableExpression(h[self].variable))
    IN  h_replace(var.h, h[other].term, h[other].variable, var.r, c)

\* equals(other) of the classes, on objects: [h, b, c].
RECURSIVE h_equals(_, _, _, _)
h_equals(h, self, other, c) ==
    LET o == h[self]
        p == h[other]
    IN  CASE IsVariableExpression(o) ->
                [h |-> h, c |-> c,
                 b |-> IsVariableExpression(p) /\ o.variable = p.variable]
          [] IsConstantExpression(o) ->
                [h |-> h, c |-> c,
                 b |-> o.class = p.class /\ o.constant = p.constant]
          [] IsApplicationExpression(o) ->
                IF o.class = p.class
                THEN LET f == h_equals(h, o.first, p.first, c)
                     IN  IF f.b THEN h_equals(f.h, o.second, p.second, f.c)
                         ELSE f
                ELSE [h |-> h, c |-> c, b |-> FALSE]
          [] IsVariableBinderExpression(o) ->
                IF o.class = p.class
                THEN IF o.variable = p.variable
                     THEN h_equals(h, o.term, p.term, c)
                     ELSE LET relabeled == h_relabel(h, self, other, c)
                          IN  h_equals(relabeled.h, o.term, relabeled.r,
                                       relabeled.c)
                ELSE [h |-> h, c |-> c, b |-> FALSE]

\* simplify() of the classes, on objects: [h, r, c, ok].
RECURSIVE h_simplify(_, _, _, _)
h_simplify(h, self, c, d) ==
    LET o == h[self]
    IN  IF d = 0 THEN [h |-> h, r |-> self, c |-> c, ok |-> FALSE]
        ELSE
        CASE IsVariableExpression(o) \/ IsConstantExpression(o) ->
                [h |-> h, r |-> self, c |-> c, ok |-> TRUE]
          [] IsVariableBinderExpression(o) ->
                LET t == h_simplify(h, o.term, c, d - 1)
                    n == New(t.h, VariableBinderExpression(o.class,
                                      o.variable, t.r))
                IN  [h |-> n.h, r |-> n.r, c |-> t.c, ok |-> t.ok]
          [] IsApplicationExpression(o) ->
                LET first == h_simplify(h, o.first, c, d - 1)
                    second == h_simplify(first.h, o.second, first.c, d - 1)
                    fo == second.h[first.r]
                    r == h_replace(second.h, fo.term, fo.variable, second.r,
                                   second.c)
                    n == New(second.h,
                             ApplicationExpression(first.r, second.r))
                IN  IF ~first.ok THEN first
                    ELSE IF ~second.ok THEN second
                    ELSE IF IsRedex(fo) THEN h_simplify(r.h, r.r, r.c, d - 1)
                    ELSE [h |-> n.h, r |-> n.r, c |-> second.c, ok |-> TRUE]

\* infixify() of the classes, on objects: [h, r].
RECURSIVE h_infixify(_, _)
h_infixify(h, self) ==
    LET o == h[self]
    IN  CASE IsVariableExpression(o) \/ IsConstantExpression(o) ->
                [h |-> h, r |-> self]
          [] IsVariableBinderExpression(o) ->
                LET t == h_infixify(h, o.term)
                IN  New(t.h, VariableBinderExpression(o.class, o.variable,
                                                      t.r))
          [] IsApplicationExpression(o) ->
                LET first == h_infixify(h, o.first)
                    second == h_infixify(first.h, o.second)
                IN  IF SwapsOperands(second.h[first.r])
                    THEN New(second.h,
                             ApplicationExpression(second.r, first.r))
                    ELSE New(second.h,
                             ApplicationExpression(first.r, second.r))

\* _skolemise(bound_vars, counter) of the classes, on objects:
\* [h, r, bound_vars, k, c].
RECURSIVE h_skolemise(_, _, _, _, _)
h_skolemise(h, self, bound_vars, k, c) ==
    LET o == h[self]
    IN  CASE IsVariableExpression(o) \/ IsConstantExpression(o) ->
                [h |-> h, r |-> self, bound_vars |-> bound_vars, k |-> k,
                 c |-> c]
          [] IsApplicationExpression(o) ->
                LET first == h_skolemise(h, o.first, bound_vars, k, c)
                    second == h_skolemise(first.h, o.second,
                                  first.bound_vars, first.k, first.c)
                    n == New(second.h,
                             ApplicationExpression(first.r, second.r))
                IN  [h |-> n.h, r |-> n.r, bound_vars |-> second.bound_vars,
                     k |-> second.k, c |-> second.c]
          [] o.class \in {"LambdaExpression", "AllExpression"} ->
                LET t == h_skolemise(h, o.term, bound_vars \cup {o.variable},
                                     k, c)
                    n == New(t.h, VariableBinderExpression(o.class,
                                      o.variable, t.r))
                IN  [h |-> n.h, r |-> n.r, bound_vars |-> bound_vars,
                     k |-> t.k, c |-> t.c]
          [] o.class = "SomeExpression" ->
                IF Collides(o, bound_vars)
                THEN LET var == New(h, VariableExpression(
                                           SkolemName(CounterGet(k))))
                         term == h_replace(var.h, o.term, o.variable, var.r,
                                           c)
                     IN  h_skolemise(term.h, term.r,
                             bound_vars \cup {SkolemName(CounterGet(k))},
                             CounterGet(k), term.c)
                ELSE h_skolemise(h, o.term, bound_vars \cup {o.variable},
                                 k, c)

(***************************************************************************)
(* The engine on objects as a state machine: expressions are built, and    *)
(* then any of the operations is called on any of the objects in being,    *)
(* one call after the other.  call records the heap the call found         *)
(* (heap0) and the heap the first call found (built).                      *)
(***************************************************************************)

\* The constructor calls that build e, children first: [h, r].
RECURSIVE Build(_, _)
Build(h, e) ==
    CASE IsVariableBinderExpression(e) ->
            LET t == Build(h, e.term)
            IN  New(t.h, VariableBinderExpression(e.class, e.variable, t.r))
      [] IsApplicationExpression(e) ->
            LET first == Build(h, e.first)
                second == Build(first.h, e.second)
            IN  New(second.h, ApplicationExpression(first.r, second.r))
      [] OTHER -> New(h, e)

\* The expressions built: \y.(x y), which captures y; the redex (\x.x P);
\* some x.some x.x, existentials over one variable; and (and P), an
\* operator application.
HeapTerms ==
    {LambdaExpression(N_y, ApplicationExpression(Var_x, Var_y)),
     ApplicationExpression(LambdaExpression(N_x, Var_x),
                           ConstantExpression(N_P)),
     SomeExpression(N_x, SomeExpression(N_x, Var_x)),
     ApplicationExpression(Operator(N_and), ConstantExpression(N_P))}

HeapVariables == {N_x, N_y}

HeapInit ==
    /\ counter = CounterInit
    /\ buffer = <<>>
    /\ constants = {}
    /\ \E e \in HeapTerms :
          /\ heap = Build(<<>>, e).h
          /\ call = [op |-> "build", e |-> e, built |-> heap]
    /\ result = NoResult
    /\ tagger = NoTagger

\* A call can start: the heap and the counter are within the bounds.
HeapReady == Len(heap) <= MaxHeap /\ counter <= MaxCounter

\* self.replace(variable, expression)
HeapReplace(self, variable, expression) ==
    /\ \E r \in {h_replace(heap, self, variable, expression, counter)} :
          /\ heap' = r.h
          /\ counter' = r.c
          /\ result' = [kind |-> "ok", r |-> r.r]
    /\ call' = [op |-> "object.replace", self |-> self,
                variable |-> variable, expression |-> expression,
                heap0 |-> heap, built |-> call.built]
    /\ UNCHANGED <<buffer, constants, tagger>>

\* self.alpha_convert(newvar)
HeapAlphaConvert(self, newvar) ==
    /\ IsVariableBinderExpression(heap[self])
    /\ \E r \in {h_alpha_convert(heap, self, newvar, counter)} :
          /\ heap' = r.h
          /\ counter' = r.c
          /\ result' = [kind |-> "ok", r |-> r.r]
    /\ call' = [op |-> "object.alpha_convert", self |-> self,
                newvar |-> newvar, heap0 |-> heap, built |-> call.built]
    /\ UNCHANGED <<buffer, constants, tagger>>

\* self == other
HeapEquals(self, other) ==
    /\ \E r \in {h_equals(heap, self, other, counter)} :
          /\ heap' = r.h
          /\ counter' = r.c
          /\ result' = [kind |-> "ok", b |-> r.b]
    /\ call' = [op |-> "object.equals", self |-> self, other |-> other,
                heap0 |-> heap, built |-> call.built]
    /\ UNCHANGED <<buffer, constants, tagger>>

\* self.simplify(); the objects of a call that raised are unreachable.
HeapSimplify(self) ==
    /\ \E r \in {h_simplify(heap, self, counter, RecursionLimit)} :
          /\ heap' = IF r.ok THEN r.h ELSE heap
          /\ counter' = r.c
          /\ result' = IF r.ok THEN [kind |-> "ok", r |-> r.r]
                       ELSE [kind |-> "RecursionError"]
    /\ call' = [op |-> "object.simplify", self |-> self,
                heap0 |-> heap, built |-> call.built]
    /\ UNCHANGED <<buffer, constants, tagger>>

\* self.infixify()
HeapInfixify(self) ==
    /\ \E r \in {h_infixify(heap, self)} :
          /\ heap' = r.h
          /\ result' = [kind |-> "ok", r |-> r.r]
    /\ call' = [op |-> "object.infixify", self |-> self,
                heap0 |-> heap, built |-> call.built]
    /\ UNCHANGED <<counter, buffer, constants, tagger>>

\* self.skolemise(): self._skolemise(set(), Counter())
HeapSkolemise(self) ==
    /\ \E r \in {h_skolemise(heap, self, {}, CounterInit, counter)} :
          /\ heap' = r.h
          /\ counter' = r.c
          /\ result' = [kind |-> "ok", r |-> r.r]
    /\ call' = [op |-> "object.skolemise", self |-> self,
                heap0 |-> heap, built |-> call.built]
    /\ UNCHANGED <<buffer, constants, tagger>>

HeapNext ==
    \/ HeapReady /\ \E self \in DOMAIN heap, variable \in HeapVariables,
                       expression \in DOMAIN heap :
                          HeapReplace(self, variable, expression)
    \/ HeapReady /\ \E self \in DOMAIN heap, newvar \in HeapVariables :
                          HeapAlphaConvert(self, newvar)
    \/ HeapReady /\ \E self \in DOMAIN heap, other \in DOMAIN heap :
                          HeapEquals(self, other)
    \/ HeapReady /\ \E self \in DOMAIN heap : HeapSimplify(self)
    \/ HeapReady /\ \E self \in DOMAIN heap : HeapInfixify(self)
    \/ HeapReady /\ \E self \in DOMAIN heap : HeapSkolemise(self)

HeapSpec == HeapInit /\ [][HeapNext]_vars

(***************************************************************************)
(* tag/ngram.py: the history Window and the Ngram tagger.  A Window is a   *)
(* deque with the attribute _width: [items, _width].  A tagger is the      *)
(* record of its fields _model, _n, _cutoff, _history; its _backoff is     *)
(* None, the default of __init__.  None is the Python value None.          *)
(***************************************************************************)

None == "None"

\* (None,) * k; a negative k gives the empty tuple.
Nones(k) == [i \in 1..k |-> None]

\* Window.__init__(width), lines 28-30.
Window(width) == [items |-> Nones(width), _width |-> width]

\* Window.clear(), lines 32-34.
clear(self) == [self EXCEPT !.items = Nones(self._width)]

\* Window.append(item), lines 36-38: rotate(-1) moves the oldest item to the
\* right end, and self[-1] = item overwrites it; on an empty deque the
\* assignment raises IndexError.
append(self, item) ==
    IF self.items = <<>>
    THEN [kind |-> "IndexError", self |-> self]
    ELSE [kind |-> "ok",
          self |-> [self EXCEPT !.items = Append(Tail(self.items), item)]]

\* items[-k:] of a tuple.
LastItems(items, k) ==
    IF k = 0 \/ k >= Len(items) THEN items
    ELSE SubSeq(items, Len(items) - k + 1, Len(items))

\* Window.set(items), lines 40-47.
set(self, items) ==
    IF Len(items) >= self._width
    THEN [self EXCEPT !.items = LastItems(items, self._width)]
    ELSE [self EXCEPT
            !.items = items \o Nones(self._width - 1 - Len(items))]

\* Ngram.__init__(n, cutoff), lines 77-83, for n >= 2.
Ngram(n, cutoff) ==
    [class |-> "Ngram", _model |-> <<>>, _n |-> n, _cutoff |-> cutoff,
     _history |-> Window(n - 1)]

\* Ngram.size(), lines 140-141.
size(self) == Cardinality(DOMAIN self._model)

\* Lines 101-105: the tokens of one sentence.  fd is the sequence of the
\* (context, tag) pairs counted so far, a context being (history, token).
RECURSIVE TrainSentence(_, _, _)
TrainSentence(history, fd, sentence) ==
    IF sentence = <<>> THEN [history |-> history, fd |-> fd]
    ELSE LET tok == Head(sentence)[1]
             tag == Head(sentence)[2]
         IN  TrainSentence(append(history, tag).self,
                           Append(fd, <<<<history.items, tok>>, tag>>),
                           Tail(sentence))

\* Lines 99-105: the sentences of the corpus, each after a clear().
RECURSIVE TrainCorpus(_, _, _)
TrainCorpus(history, fd, tagged_corpus) ==
    IF tagged_corpus = <<>> THEN [history |-> history, fd |-> fd]
    ELSE LET s == TrainSentence(clear(history), fd, Head(tagged_corpus))
         IN  TrainCorpus(s.history, s.fd, Tail(tagged_corpus))

\* fd.conditions()
conditions(fd) == {fd[i][1] : i \in DOMAIN fd}

\* fd[context].count(tag)
count(fd, context, tag) ==
    Cardinality({i \in DOMAIN fd : fd[i] = <<context, tag>>})

\* The tags fd[context].max() may return: those counted most often.
MaxTags(fd, context) ==
    {fd[i][2] : i \in {j \in DOMAIN fd :
        /\ fd[j][1] = context
        /\ \A k \in DOMAIN fd :
              fd[k][1] = context =>
                  count(fd, context, fd[k][2]) <= count(fd, context, fd[j][2])}}

\* Lines 106-116: the model train() builds from the counts, with best the
\* tag max() returned for each context and backoff_tag what
\* _backoff_tag_one returned.
TrainedModel(fd, best, backoff_tag, cutoff) ==
    LET kept == {c \in conditions(fd) :
                    /\ best[c] # backoff_tag
                    /\ count(fd, c, best[c]) > cutoff}
    IN  IF kept = {} THEN <<>> ELSE [context \in kept |-> best[context]]

(***************************************************************************)
(* The tagger as a state machine: a tagger is built, and then train() and  *)
(* tag_one() are called on it, and the methods of Window on its history,   *)
(* in any order.  call records the number of train() calls that have       *)
(* completed (trains).                                                     *)
(***************************************************************************)

\* train() is called at most this many times on a tagger whose model is
\* empty.
MaxTrains == 2

Tokens == {"a", "b"}

Tags == {"T", "U"}

\* Sentences of no, one and two tagged tokens.
Sentences ==
    {<<>>, <<<<"a", "T">>>>, <<<<"a", "U">>>>,
     <<<<"a", "T">>, <<"b", "U">>>>}

\* Corpora of no, one and two sentences.
Corpora ==
    {<<>>} \cup {<<s>> : s \in Sentences}
           \cup {<<s, t>> : s \in Sentences, t \in Sentences}

\* The history argument of tag_one: a tuple of none to three tags.  The
\* default, None, is false in line 129 as the empty tuple is, and is not
\* used otherwise: the empty tuple stands for both.
Histories == {<<>>, <<"T">>, <<"T", "U">>, <<"T", "U", "T">>}

\* The tuples given to Window.set: none to three items.
ItemLists == Histories

\* Bigram and Trigram taggers, with a cutoff of 0 or 1 (the default).
TaggerInit ==
    /\ counter = CounterInit
    /\ buffer = <<>>
    /\ constants = {}
    /\ heap = <<>>
    /\ \E n \in {2, 3}, cutoff \in {0, 1} :
          /\ tagger = Ngram(n, cutoff)
          /\ call = [op |-> "Ngram", n |-> n, cutoff |-> cutoff, trains |-> 0]
    /\ result = NoResult

\* The number of train() calls completed on the tagger so far.
Trains == call.trains

\* self.train(tagged_corpus), lines 95-116 (verbose is False).  What
\* _backoff_tag_one returns, and which of several most frequent tags max()
\* returns, is not decided by ngram.py.
Train(tagged_corpus) ==
    /\ Trains < MaxTrains
    /\ IF size(tagger) # 0
       THEN /\ result' = [kind |-> "ValueError",
                          msg |-> "Tagger is already trained"]
            /\ call' = [op |-> "train", tagged_corpus |-> tagged_corpus,
                        trains0 |-> Trains, trains |-> Trains]
            /\ tagger' = tagger
       ELSE \E t \in {TrainCorpus(tagger._history, <<>>, tagged_corpus)} :
            \E backoff_tag \in Tags \cup {None} :
            \E best \in [conditions(t.fd) -> Tags] :
               /\ \A c \in conditions(t.fd) : best[c] \in MaxTags(t.fd, c)
               /\ tagger' = [tagger EXCEPT
                     !._model = TrainedModel(t.fd, best, backoff_tag,
                                             tagger._cutoff),
                     !._history = t.history]
               /\ result' = [kind |-> "ok"]
               /\ call' = [op |-> "train", tagged_corpus |-> tagged_corpus,
                           trains0 |-> Trains, trains |-> Trains + 1]
    /\ UNCHANGED <<counter, buffer, constants, heap>>

\* self.tag_one(token, history), lines 127-138, with self._backoff None.
TagOne(tok, history) ==
    /\ IF size(tagger) = 0
       THEN /\ result' = [kind |-> "ValueError",
                          msg |-> "Tagger is not trained"]
            /\ tagger' = tagger
       ELSE \E h \in {IF history # <<>>
                      THEN set(tagger._history, history)
                      ELSE tagger._history} :
               /\ tagger' = [tagger EXCEPT !._history = h]
               /\ result' =
                     [kind |-> "ok",
                      tag |-> IF <<h.items, tok>> \in DOMAIN tagger._model
                              THEN tagger._model[<<h.items, tok>>]
                              ELSE None]
    /\ call' = [op |-> "tag_one", token |-> tok, history |-> history,
                trains |-> Trains]
    /\ UNCHANGED <<counter, buffer, constants, heap>>

\* self._history.clear()
WindowClear ==
    /\ tagger' = [tagger EXCEPT !._history = clear(tagger._history)]
    /\ call' = [op |-> "Window.clear", trains |-> Trains]
    /\ result' = [kind |-> "ok"]
    /\ UNCHANGED <<counter, buffer, constants, heap>>

\* self._history.append(item)
WindowAppend(item) ==
    /\ \E r \in {append(tagger._history, item)} :
          /\ tagger' = [tagger EXCEPT !._history = r.self]
          /\ result' = [kind |-> r.kind]
    /\ call' = [op |-> "Window.append", item |-> item,
                items0 |-> tagger._history.items, trains |-> Trains]
    /\ UNCHANGED <<counter, buffer, constants, heap>>

\* self._history.set(items)
WindowSet(items) ==
    /\ tagger' = [tagger EXCEPT !._history = set(tagger._history, items)]
    /\ call' = [op |-> "Window.set", items |-> items, trains |-> Trains]
    /\ result' = [kind |-> "ok"]
    /\ UNCHANGED <<counter, buffer, constants, heap>>

TaggerNext ==
    \/ \E tagged_corpus \in Corpora : Train(tagged_corpus)
    \/ \E tok \in Tokens, history \in Histories : TagOne(tok, history)
    \/ WindowClear
    \/ \E item \in Tags \cup {None} : WindowAppend(item)
    \/ \E items \in ItemLists : WindowSet(items)

TaggerSpec == TaggerInit /\ [][TaggerNext]_vars

(***************************************************************************)
(* Reference notions the properties are stated with.                       *)
(***************************************************************************)

\* The term with every bound occurrence replaced by the distance to its
\* binder: two terms are alpha-equivalent exactly when these are equal.
RECURSIVE DeBruijn(_, _)
DeBruijn(e, env) ==
    CASE IsVariableExpression(e) ->
            IF \E i \in 1..Len(env) : env[i] = e.variable
            THEN [bound |-> CHOOSE i \in 1..Len(env) :
                              /\ env[i] = e.variable
                              /\ \A j \in 1..(i - 1) : env[j] # e.variable]
            ELSE [free |-> e.variable]
      [] IsConstantExpression(e) -> e
      [] IsVariableBinderExpression(e) ->
            [class |-> e.class, term |-> DeBruijn(e.term, <<e.variable>> \o env)]
      [] IsApplicationExpression(e) ->
            [first |-> DeBruijn(e.first, env), second |-> DeBruijn(e.second, env)]

AlphaEquivalent(a, b) == DeBruijn(a, <<>>) = DeBruijn(b, <<>>)

\* A name outside the set used.
FreshName(used) ==
    <<"v">> \o str_int(CHOOSE n \in 1..(Cardinality(used) + 1) :
                          (<<"v">> \o str_int(n)) \notin used)

\* Substitution of a for the free occurrences of v in t that captures no
\* variable: a binder in the way is renamed to a name that occurs nowhere.
RECURSIVE Substitute(_, _, _)
Substitute(t, v, a) ==
    CASE IsVariableExpression(t) -> IF t.variable = v THEN a ELSE t
      [] IsConstantExpression(t) -> t
      [] IsApplicationExpression(t) ->
            ApplicationExpression(Substitute(t.first, v, a),
                                  Substitute(t.second, v, a))
      [] IsVariableBinderExpression(t) ->
            IF t.variable = v THEN t
            ELSE IF t.variable \in free(a)
            THEN LET w == FreshName(variables(t) \cup variables(a) \cup {v})
                     renamed == Substitute(t.term, t.variable,
                                           VariableExpression(w))
                 IN  VariableBinderExpression(t.class, w,
                                              Substitute(renamed, v, a))
            ELSE VariableBinderExpression(t.class, t.variable,
                                          Substitute(t.term, v, a))

RECURSIVE HasSome(_)
HasSome(e) ==
    CASE IsVariableExpression(e) \/ IsConstantExpression(e) -> FALSE
      [] IsApplicationExpression(e) -> HasSome(e.first) \/ HasSome(e.second)
      [] IsVariableBinderExpression(e) ->
            e.class = "SomeExpression" \/ HasSome(e.term)

\* The variables that the binders of e bind.
RECURSIVE BoundVariables(_)
BoundVariables(e) ==
    CASE IsVariableExpression(e) \/ IsConstantExpression(e) -> {}
      [] IsApplicationExpression(e) ->
            BoundVariables(e.first) \cup BoundVariables(e.second)
      [] IsVariableBinderExpression(e) ->
            {e.variable} \cup BoundVariables(e.term)

HeadName(h) == IF IsVariableExpression(h) THEN h.variable ELSE h.constant

(***************************************************************************)
(* C1.  Equality of binders is alpha-equivalence on the example: for each  *)
(* binder kind and heads P, Q with different names, kind x.(P x) equals    *)
(* kind y.(P y) (in both orders), and kind x.(P x) does not equal          *)
(* kind x.(Q x).                                                           *)
(***************************************************************************)
C1_BinderEquality ==
    call.op = "equals" =>
        \A k \in BinderClasses, h \in Heads :
            /\ \A v \in {N_x, N_y}, w \in {N_x, N_y} :
                  (/\ call.self = BinderOver(k, v, h)
                   /\ call.other = BinderOver(k, w, h))
                  => result.value = TRUE
            /\ \A g \in Heads :
                  (/\ HeadName(g) # HeadName(h)
                   /\ call.self = BinderOver(k, N_x, h)
                   /\ call.other = BinderOver(k, N_x, g))
                  => result.value = FALSE

\* some x.(P x) has been compared with some y.(P y) and found equal.
C1_Witness ==
    /\ call.op = "equals"
    /\ call.self = BinderOver("SomeExpression", N_x, ConstantExpression(N_P))
    /\ call.other = BinderOver("SomeExpression", N_y, ConstantExpression(N_P))
    /\ result.value = TRUE

\* \z.(y z)
RenamedTerm ==
    LambdaExpression(N_z, ApplicationExpression(Var_y,
                                                IndVariableExpression(N_z)))

IsCaptureCall ==
    /\ call.op = "replace"
    /\ call.self = CaptureTerm
    /\ call.variable = N_x
    /\ call.expression = Var_y

(***************************************************************************)
(* C2.  Capture avoidance: replacing free x by y in \y.(x y) renames the   *)
(* bound y to the name minted from the counter, so that the result is      *)
(* alpha-equivalent to \z.(y z), is equal to it for the engine's own       *)
(* equals in both orders, and is not the captured term \y.(y y); for every *)
(* value the counter has when replace is called.                           *)
(***************************************************************************)
C2_CaptureAvoidance ==
    IsCaptureCall =>
        /\ result.e.variable = MintedName(call.c0 + 1)
        /\ AlphaEquivalent(result.e, RenamedTerm)
        /\ equals(result.e, RenamedTerm, counter).b
        /\ equals(RenamedTerm, result.e, counter).b
        /\ result.e # CapturedTerm
        /\ ~AlphaEquivalent(result.e, CapturedTerm)
        /\ N_y \in free(result.e)

\* The call has been made with the counter already advanced.
C2_Witness ==
    /\ IsCaptureCall
    /\ call.c0 > 0
    /\ result.e = LambdaExpression(MintedName(call.c0 + 1),
                      ApplicationExpression(Var_y,
                          VariableExpression(MintedName(call.c0 + 1))))

\* What runtests() asserts each application of ChurchTerms simplifies to.
ChurchExpected(t) ==
    CASE t = ApplicationExpression(succ, zero) -> one
      [] t = ApplicationExpression(succ, one) -> two
      [] t = ApplicationExpression(ApplicationExpression(plus, one), two) ->
            three
      [] t = ApplicationExpression(ApplicationExpression(mult, two), two) ->
            four
      [] t = ApplicationExpression(pred, ApplicationExpression(pred, four)) ->
            two

(***************************************************************************)
(* C4.  simplify computes Church arithmetic: (succ zero) gives one,        *)
(* (succ one) two, (plus one two) three, (mult two two) four and           *)
(* (pred (pred four)) two, each up to alpha-conversion, both for the       *)
(* engine's equals and for alpha-equivalence proper.                       *)
(***************************************************************************)
C4_ChurchArithmetic ==
    (call.op = "simplify" /\ call.self \in ChurchTerms) =>
        /\ result.kind = "ok"
        /\ equals(result.e, ChurchExpected(call.self), counter).b
        /\ AlphaEquivalent(result.e, ChurchExpected(call.self))

\* (pred (pred four)) has been simplified to two.
C4_Witness ==
    /\ call.op = "simplify"
    /\ call.self = ApplicationExpression(pred, ApplicationExpression(pred, four))
    /\ result.kind = "ok"
    /\ AlphaEquivalent(result.e, two)

(***************************************************************************)
(* C5.  Beta reduction is capture-avoiding: simplifying (\p.B A) gives a   *)
(* result alpha-equivalent to simplify of B with A substituted for p       *)
(* without capture.                                                        *)
(***************************************************************************)
C5_BetaCaptureAvoiding ==
    (call.op = "simplify" /\ call.self \in RedexTerms /\ result.kind = "ok") =>
        LET expected == simplify(Substitute(call.self.first.term,
                                            call.self.first.variable,
                                            call.self.second),
                                 counter, RecursionLimit)
        IN  expected.ok => AlphaEquivalent(result.e, expected.e)

\* (man x)
ManTerm == ApplicationExpression(VariableExpression(N_man), Var_x)

(***************************************************************************)
(* C6.  The result of skolemise holds no existential binder at any depth;  *)
(* for some x.(man x) it is (man x), with as many variables as before.     *)
(***************************************************************************)
C6_NoExistentialLeft ==
    call.op = "skolemise" =>
        /\ ~HasSome(result.e)
        /\ call.self = SomeManTerm =>
              /\ result.e = ManTerm
              /\ Cardinality(variables(result.e))
                    = Cardinality(variables(call.self))

\* some x.(man x) has been skolemised to (man x).
C6_Witness ==
    /\ call.op = "skolemise"
    /\ call.self = SomeManTerm
    /\ HasSome(call.self)
    /\ result.e = ManTerm

(***************************************************************************)
(* C8.  Global uniqueness after skolemisation: the variables used for the  *)
(* eliminated existentials are pairwise different, and none of them is a   *)
(* free variable of the term or a variable bound by a universal or lambda  *)
(* binder of the result.                                                   *)
(***************************************************************************)
C8_GlobalUniqueness ==
    call.op = "skolemise" =>
        LET iv == result.introduced
        IN  /\ \A i \in DOMAIN iv, j \in DOMAIN iv : i # j => iv[i] # iv[j]
            /\ \A i \in DOMAIN iv :
                  /\ iv[i] \notin free(call.self)
                  /\ iv[i] \notin BoundVariables(result.e)

\* all x.some y.some y.(loves x y)
LovesTerm ==
    AllExpression(N_x, SomeExpression(N_y, SomeExpression(N_y,
        ApplicationExpression(
            ApplicationExpression(VariableExpression(N_loves), Var_x),
            Var_y))))

(***************************************************************************)
(* C3.  Round trip: for every expression l read by the parser, a parser    *)
(* with the same constants reads an expression from str(l), and that       *)
(* expression is equal to l for the engine's equals or alpha-equivalent    *)
(* to l.                                                                   *)
(***************************************************************************)
C3_RoundTrip ==
    (call.op = "reparse" /\ call.constants = constants) =>
        /\ result.kind = "ok"
        /\ result.equal \/ AlphaEquivalent(call.l, result.ll)

C9_OpenBinder ==
    call.op = "next" =>
        /\ call.buffer0 = process(Text_open_binder) =>
              /\ result.kind = "Error"
              /\ result.msg = "end of stream"
        /\ call.buffer0 = process(Text_closed_binder) =>
              /\ result.kind = "Error"
              /\ result.msg = "parse error, unexpected token"
              /\ result.tok = CLOSE

\* \x has been parsed, and the parse failed with the whole text consumed.
C9_Witness ==
    /\ call.op = "next"
    /\ call.buffer0 = process(Text_open_binder)
    /\ result.kind = "Error"
    /\ buffer = <<>>

\* C9 as worded: parsing \x fails with the unexpected-token error.
C9_UnexpectedToken ==
    (call.op = "next" /\ call.buffer0 = process(Text_open_binder)) =>
        /\ result.kind = "Error"
        /\ result.msg = "parse error, unexpected token"

(***************************************************************************)
(* C10.  Parsing the empty text, and any request for an expression while   *)
(* the buffer is empty, fails with the end-of-stream error: no expression  *)
(* is returned and the buffer stays empty.                                 *)
(***************************************************************************)
C10_EmptyText ==
    (call.op = "next" /\ call.buffer0 = process(Text_empty)) =>
        /\ result = [kind |-> "Error", msg |-> "end of stream"]
        /\ buffer = <<>>

\* A parser with an empty buffer has been asked for an expression and has
\* raised an Error.
C10_Witness ==
    /\ call.op = "next"
    /\ call.buffer0 = <<>>
    /\ result.kind = "Error"

\* For each parser's constants, operands M, N and operator op: the buffers of
\* (M op N) and (op M N), the expressions M and N are read as, and
\* Application(Application(op, M), N).
InfixCases ==
    {[consts |-> k, op |-> op,
      infix |-> process(InfixText(m, op, n)),
      prefix |-> process(PrefixText(op, m, n)),
      M |-> next(process(m), k).e,
      tree |-> ApplicationExpression(
                   ApplicationExpression(Operator(op), next(process(m), k).e),
                   next(process(n), k).e)] :
        k \in ParserConstants, m \in OperandTexts, op \in OPS,
        n \in OperandTexts}

(***************************************************************************)
(* C11.  Infix operator parsing: for every operator op and expressions M,  *)
(* N, the text (M op N) is read as Application(Application(op, M), N),     *)
(* the operator met in second place becoming the functor; and (op M N) is  *)
(* read as the same tree when M is not itself an Operator.                 *)
(***************************************************************************)
C11_InfixSwap ==
    call.op = "next" =>
        \A c \in InfixCases :
            (c.consts = constants /\ c.op \notin constants) =>
                /\ call.buffer0 = c.infix =>
                      result = [kind |-> "ok", e |-> c.tree]
                /\ (call.buffer0 = c.prefix /\ ~IsOperator(c.M)) =>
                      result = [kind |-> "ok", e |-> c.tree]

\* (x implies P) has been read as ((implies x) P).
C11_Witness ==
    /\ call.op = "next"
    /\ call.buffer0 = process(InfixText(N_x, <<"i", "m", "p", "l", "i", "e", "s">>,
                                        N_P))
    /\ result.kind = "ok"
    /\ result.e.first.first = Operator(<<"i", "m", "p", "l", "i", "e", "s">>)
    /\ result.e.first.second = Var_x

\* C11 as worded: (op M N) is read as Application(Application(op, M), N)
\* for every expression M, an Operator included.
C11_SameTree ==
    call.op = "next" =>
        \A c \in InfixCases :
            (c.consts = constants /\ c.op \notin constants
             /\ call.buffer0 = c.prefix) =>
                result = [kind |-> "ok", e |-> c.tree]

\* kind v1.(kind v2.( ... body)), the first variable outermost.  Each
\* variable here fits is_indvar or not, as the parser would find.
RECURSIVE NestedBinders(_, _, _)
NestedBinders(class, vs, body) ==
    IF vs = <<>> THEN body
    ELSE VariableBinderExpression(class, Head(vs),
                                  NestedBinders(class, Tail(vs), body))

\* For each parser's constants, binder kind, variable list and body M: the
\* buffers of kind v1 ... vn.M and of kind v1. ... kind vn.M, and the nested
\* single-variable binders over what M is read as.
BinderCases ==
    {[consts |-> k, vs |-> vs,
      list |-> process(BinderListText(b, vs, m)),
      nested |-> process(NestedBinderText(b, vs, m)),
      tree |-> NestedBinders(b, vs, next(process(m), k).e)] :
        k \in ParserConstants, b \in BinderClasses, vs \in VariableLists,
        m \in OperandTexts}

(***************************************************************************)
(* C12.  Multi-variable binder sugar: for each binder kind, the text       *)
(* kind v1 v2 ... vn.M is read as the nested single-variable binders       *)
(* kind v1.(kind v2.(... M)), the first listed variable outermost, which   *)
(* is also what the text kind v1.kind v2. ... kind vn.M is read as.        *)
(***************************************************************************)
C12_BinderSugar ==
    call.op = "next" =>
        \A c \in BinderCases :
            (c.consts = constants
             /\ call.buffer0 \in {c.list, c.nested}) =>
                result = [kind |-> "ok", e |-> c.tree]

\* some x y z.(P x) has been read, with x outermost and z innermost.
C12_Witness ==
    /\ call.op = "next"
    /\ call.buffer0 = process(BinderListText("SomeExpression",
                                             <<N_x, N_y, N_z>>, Text_P_x))
    /\ result.kind = "ok"
    /\ result.e.class = "SomeExpression"
    /\ result.e.variable = N_x
    /\ result.e.term.variable = N_y
    /\ result.e.term.term.variable = N_z
    /\ result.e.term.term.term.class = "ApplicationExpression"

\* The tokens of a text, read off the text itself: blanks, tabs and
\* newlines separate tokens, and each of \ . ( ) is a token of its own.
RECURSIVE TokensFrom(_, _, _, _)
TokensFrom(text, i, cur, acc) ==
    LET flushed == IF cur = <<>> THEN acc ELSE Append(acc, cur)
    IN  IF i > Len(text) THEN flushed
        ELSE IF text[i] \in {" ", "\t", "\n"}
        THEN TokensFrom(text, i + 1, <<>>, flushed)
        ELSE IF text[i] \in {"\\", ".", "(", ")"}
        THEN TokensFrom(text, i + 1, <<>>, Append(flushed, <<text[i]>>))
        ELSE TokensFrom(text, i + 1, Append(cur, text[i]), acc)

RawTokens(text) == TokensFrom(text, 1, <<>>, <<>>)

\* The tokens ts as a text, one blank between two tokens.
RECURSIVE JoinTokens(_)
JoinTokens(ts) ==
    IF ts = <<>> THEN <<>>
    ELSE IF Len(ts) = 1 THEN ts[1]
    ELSE ts[1] \o <<" ">> \o JoinTokens(Tail(ts))

(***************************************************************************)
(* C13.  Incremental parsing.  feed() leaves in the buffer the tokens of   *)
(* the text fed so far, in order, wherever the text was cut.  A request    *)
(* that returns an expression takes n >= 1 tokens from the front of the    *)
(* buffer and leaves the others, in order; the n tokens are those of the   *)
(* expression returned (read on their own they give that expression and    *)
(* nothing is left), and no shorter prefix of them is an expression.       *)
(***************************************************************************)
C13_Incremental ==
    /\ call.op = "feed" =>
          RawTokens(buffer) = RawTokens(call.buffer0 \o call.data)
    /\ (call.op = "next" /\ result.kind = "ok") =>
          LET before == RawTokens(call.buffer0)
              after == RawTokens(buffer)
              n == Len(before) - Len(after)
          IN  /\ n >= 1
              /\ after = SubSeq(before, n + 1, Len(before))
              /\ \E r \in {next(JoinTokens(SubSeq(before, 1, n)), constants)} :
                    /\ r.kind = "ok"
                    /\ r.e = result.e
                    /\ RawTokens(r.buffer) = <<>>
              /\ \A m \in 1..(n - 1) :
                    next(JoinTokens(SubSeq(before, 1, m)), constants).kind
                        # "ok"

\* After two or more feeds, (P x) has been returned and y is what is left.
C13_Witness ==
    /\ call.op = "next"
    /\ call.feeds >= 2
    /\ result.kind = "ok"
    /\ result.e = ApplicationExpression(VariableExpression(N_P), Var_x)
    /\ RawTokens(call.buffer0) = <<OPEN, N_P, N_x, CLOSE, N_y>>
    /\ RawTokens(buffer) = <<N_y>>

\* The form of an individual variable: w, x, y or z, then digits only.
IndVarForm(tok) ==
    /\ tok[1] \in {"w", "x", "y", "z"}
    /\ \A i \in 2..Len(tok) :
          tok[i] \in {"0", "1", "2", "3", "4", "5", "6", "7", "8", "9"}

(***************************************************************************)
(* C14.  Token classification by priority.  With t the first token of the  *)
(* buffer when an expression is requested: a binder keyword gives a binder *)
(* of its kind (or an error further on), "(" an application (or an         *)
(* error); otherwise a declared constant gives Constant(t), also when t    *)
(* is an operator name or has the form of an individual variable;          *)
(* otherwise an operator name gives Operator(t); otherwise the form        *)
(* w|x|y|z with digits gives an individual variable; "." and ")" are       *)
(* rejected with the unexpected-token error; any other token is a generic  *)
(* variable.  No undeclared token is ever read as a Constant.              *)
(***************************************************************************)
C14_Classification ==
    (call.op = "next" /\ RawTokens(call.buffer0) # <<>>) =>
        LET t == RawTokens(call.buffer0)[1]
            ok(e) == result = [kind |-> "ok", e |-> e]
        IN  CASE t \in {Parser_LAMBDA, SOME, ALL} ->
                    \/ result.kind = "Error"
                    \/ result.kind = "ok" /\ result.e.class = factory(t)
              [] t = OPEN ->
                    \/ result.kind = "Error"
                    \/ result.kind = "ok"
                       /\ result.e.class = "ApplicationExpression"
              [] OTHER ->
                    IF t \in constants
                        THEN ok([class |-> "ConstantExpression", constant |-> t])
                    ELSE IF t \in {N_and, N_or, <<"n", "o", "t">>,
                                   <<"i", "m", "p", "l", "i", "e", "s">>,
                                   <<"i", "f", "f">>, <<"=">>}
                        THEN ok([class |-> "Operator", constant |-> t])
                    ELSE IF IndVarForm(t)
                        THEN ok([class |-> "IndVariableExpression",
                                 variable |-> t])
                    ELSE IF t \in {DOT, CLOSE}
                        THEN result = [kind |-> "Error", tok |-> t,
                                       msg |-> "parse error, unexpected token"]
                    ELSE ok([class |-> "VariableExpression", variable |-> t])

\* A parser with and, w and some declared as constants has read w as a
\* Constant.
C14_Witness ==
    /\ call.op = "next"
    /\ constants = {N_and, N_w, SOME}
    /\ RawTokens(call.buffer0) = <<N_w>>
    /\ result = [kind |-> "ok", e |-> ConstantExpression(N_w)]

(***************************************************************************)
(* C15.  Minted names are globally unique: when replace on a binder has    *)
(* to rename its bound variable, the name it mints occurs nowhere in the   *)
(* binder being renamed nor in the expression being substituted, and       *)
(* carries a number above the counter's value at the call (so it differs   *)
(* from the names minted before).                                          *)
(***************************************************************************)
C15_MintedNamesUnique ==
    (/\ call.op = "replace"
     /\ IsVariableBinderExpression(call.self)
     /\ ~Shadows(call.self, call.variable)
     /\ Captures(call.self, call.expression)) =>
        /\ result.e.variable = MintedName(call.c0 + 1)
        /\ result.e.variable \notin variables(call.self)
        /\ result.e.variable \notin variables(call.expression)

(***************************************************************************)
(* C16.  The counter is an explicit context value: what replace and        *)
(* simplify return on given arguments, minted names included, does not     *)
(* depend on the calls made before on other expressions; it is what the    *)
(* same call returns in a run that starts from the same counter value and  *)
(* makes that call only.                                                   *)
(***************************************************************************)
C16_CounterExplicit ==
    /\ call.op = "replace" =>
          result.e = replace(call.self, call.variable, call.expression,
                             CounterInit).e
    /\ (call.op = "simplify" /\ result.kind = "ok") =>
          result.e = simplify(call.self, CounterInit, RecursionLimit).e

(***************************************************************************)
(* C18.  Shadowing: replace(v, e) on a binder that binds v returns the     *)
(* binder as it is, whatever its kind and whatever e, and mints no name;   *)
(* and simplify of (\x.\x.(x x) 1) is \x.(x x), equal to it for equals in  *)
(* both orders, as the first test of runtests() asserts.                   *)
(***************************************************************************)
C18_Shadowing ==
    /\ (/\ call.op = "replace"
        /\ IsVariableBinderExpression(call.self)
        /\ call.self.variable = call.variable) =>
          /\ result.e = call.self
          /\ counter = call.c0
    /\ (call.op = "simplify" /\ call.self = ShadowRedex) =>
          /\ result.kind = "ok"
          /\ result.e = LambdaExpression(N_x,
                            ApplicationExpression(Var_x, Var_x))
          /\ equals(result.e, Parsed(<<"\\", "x", ".", "(", "x", " ", "x", ")">>),
                    counter).b
          /\ equals(Parsed(<<"\\", "x", ".", "(", "x", " ", "x", ")">>), result.e,
                    counter).b

\* The text (\x.\x.(x x) 1) has been read and simplified to \x.(x x).
C18_Witness ==
    /\ call.op = "simplify"
    /\ call.self = Parsed(Text_shadow)
    /\ result.kind = "ok"
    /\ result.e = LambdaExpression(N_x, ApplicationExpression(Var_x, Var_x))

RECURSIVE Leaves(_)
Leaves(e) ==
    CASE IsVariableBinderExpression(e) -> Leaves(e.term)
      [] IsApplicationExpression(e) -> Leaves(e.first) \o Leaves(e.second)
      [] OTHER -> <<e>>

\* The leaves as a bag: what a reordering of operands keeps.
LeafBag(e) ==
    LET l == Leaves(e)
    IN  [x \in {l[i] : i \in 1..Len(l)} |->
            Cardinality({i \in 1..Len(l) : l[i] = x})]

(***************************************************************************)
(* C20.  infixify only reorders operands.  On a leaf it returns the leaf;  *)
(* on a binder it returns a binder of the same kind and variable over the  *)
(* infixified term; on an application it infixifies both children and      *)
(* puts the second before the first exactly when the first is an Operator  *)
(* other than `not`.  The result has the leaves of the term, each as often *)
(* as the term has it, and the same free variables.                        *)
(***************************************************************************)
C20_Infixify ==
    call.op = "infixify" =>
        LET e == call.self
            r == result.e
        IN  /\ counter = call.c0
            /\ LeafBag(r) = LeafBag(e)
            /\ free(r) = free(e)
            /\ (IsVariableExpression(e) \/ IsConstantExpression(e)) => r = e
            /\ IsVariableBinderExpression(e) =>
                  /\ r.class = e.class
                  /\ r.variable = e.variable
                  /\ r.term = infixify(e.term)
            /\ IsApplicationExpression(e) =>
                  /\ r.class = e.class
                  /\ IF IsOperator(e.first) /\ e.first.constant # N_not
                     THEN /\ r.first = infixify(e.second)
                          /\ r.second = e.first
                     ELSE /\ r.first = infixify(e.first)
                          /\ r.second = infixify(e.second)

\* infixify has been called on \x.((and P) (not x)): a binder over an
\* application whose first child is swapped and whose second child, headed
\* by `not`, is kept.
C20_Witness ==
    /\ call.op = "infixify"
    /\ call.self = LambdaExpression(N_x, AndNotTerm)
    /\ result.e = LambdaExpression(N_x,
                      ApplicationExpression(
                          ApplicationExpression(ConstantExpression(N_P),
                                                Operator(N_and)),
                          ApplicationExpression(Operator(N_not), Var_x)))

(***************************************************************************)
(* C17.  No call of replace, alpha_convert, simplify, infixify, skolemise  *)
(* or of an equality test changes an object in being: every object the     *)
(* call found is there after it with the same class, names and children,   *)
(* and stands for the same expression; and after any sequence of calls so  *)
(* does every object that was built before the first call.                 *)
(***************************************************************************)
C17_Immutable ==
    /\ "heap0" \in DOMAIN call =>
          /\ Len(heap) >= Len(call.heap0)
          /\ \A id \in DOMAIN call.heap0 :
                /\ heap[id] = call.heap0[id]
                /\ Value(heap, id) = Value(call.heap0, id)
    /\ \A id \in DOMAIN call.built :
          /\ heap[id] = call.built[id]
          /\ Value(heap, id) = Value(call.built, id)

\* replace(x, y) has been called on the object \y.(x y), whose bound
\* variable it had to rename: the result is a new object for \z1.(y z1),
\* made after objects that earlier calls had added.
C17_Witness ==
    /\ call.op = "object.replace"
    /\ Len(call.heap0) > Len(call.built)
    /\ Value(call.heap0, call.self) =
          LambdaExpression(N_y, ApplicationExpression(Var_x, Var_y))
    /\ call.variable = N_x
    /\ Value(call.heap0, call.expression) = Var_y
    /\ result.r \notin DOMAIN call.heap0
    /\ heap[result.r].class = "LambdaExpression"
    /\ heap[result.r].variable # N_y

\* The leaf reached from a term by going to the first child of every
\* application on the way.
RECURSIVE ChainHead(_)
ChainHead(e) == IF IsApplicationExpression(e) THEN ChainHead(e.first) ELSE e

(***************************************************************************)
(* C21.  Reading op of an application returns the name of the operator at  *)
(* the head of its chain of first children when that head is an Operator,  *)
(* and raises AttributeError, returning nothing, when the head is anything *)
(* else (a variable, a constant, a binder), wherever else operators occur  *)
(* in the application.  The read mints no name.                            *)
(***************************************************************************)
C21_OperatorAccess ==
    call.op = "op" =>
        /\ counter = call.c0
        /\ IF ChainHead(call.self).class = "Operator"
           THEN /\ result.kind = "ok"
                /\ result.v = ChainHead(call.self).constant
           ELSE /\ result.kind = "AttributeError"
                /\ DOMAIN result = {"kind"}

\* op has been read on ((and P) (not x)), whose chain is two applications
\* long: the operator and is returned.
C21_Witness ==
    /\ call.op = "op"
    /\ call.self = AndNotTerm
    /\ result = [kind |-> "ok", v |-> N_and]

N_s2 == <<"_", "s", "2">>

(***************************************************************************)
(* C22.  skolemise renames an existential on a collision and only then.    *)
(* With t a term without existentials: under a lambda or universal binder  *)
(* of v, some w.t becomes t with _s1 for the free occurrences of w when    *)
(* w = v, and t itself when w # v; at the top, where no variable is in     *)
(* use, some w.t becomes t; in some w.some u.t the inner existential meets *)
(* w in use, and is renamed exactly when u = w.  The variable chosen,      *)
(* kept or minted, is in use from then on: (some x.x some x.x) becomes     *)
(* (x _s1), some x.(some x.x some _s1._s1) becomes (_s1 _s2), and          *)
(* all x.some x.(P x) becomes all x.(P _s1).                               *)
(***************************************************************************)
C22_RenameOnCollision ==
    call.op = "skolemise" =>
        LET e == call.self
            s1 == VariableExpression(N_s1)
        IN  /\ (/\ e.class \in {"LambdaExpression", "AllExpression"}
                /\ e.term.class = "SomeExpression"
                /\ ~HasSome(e.term.term)) =>
                   /\ result.e = VariableBinderExpression(e.class, e.variable,
                         IF e.term.variable = e.variable
                         THEN Substitute(e.term.term, e.term.variable, s1)
                         ELSE e.term.term)
                   /\ result.introduced =
                         <<IF e.term.variable = e.variable
                           THEN N_s1 ELSE e.term.variable>>
            /\ (e.class = "SomeExpression" /\ ~HasSome(e.term)) =>
                   /\ result.e = e.term
                   /\ result.introduced = <<e.variable>>
            /\ (/\ e.class = "SomeExpression"
                /\ e.term.class = "SomeExpression"
                /\ ~HasSome(e.term.term)) =>
                   /\ result.e =
                         IF e.term.variable = e.variable
                         THEN Substitute(e.term.term, e.term.variable, s1)
                         ELSE e.term.term
                   /\ result.introduced =
                         <<e.variable, IF e.term.variable = e.variable
                                       THEN N_s1 ELSE e.term.variable>>
            /\ e = SomePairTerm =>
                   result.e = ApplicationExpression(Var_x, s1)
            /\ e = SomeMintedTerm =>
                   result.e = ApplicationExpression(s1,
                                  VariableExpression(N_s2))
            /\ e = AllSomeTerm =>
                   result.e = AllExpression(N_x, ApplicationExpression(
                                  ConstantExpression(N_P), s1))

\* skolemise has been called on all x.some x.(P x) and has returned
\* all x.(P _s1).
C22_Witness ==
    /\ call.op = "skolemise"
    /\ call.self = AllSomeTerm
    /\ result.e = AllExpression(N_x, ApplicationExpression(
                      ConstantExpression(N_P), VariableExpression(N_s1)))
    /\ result.introduced = <<N_s1>>

\* For each parser's constants and each list of three or four operands: the
\* buffer of (M N P ...) and the expressions the operands are read as.
NaryCases ==
    {[consts |-> k, buffer |-> process(NaryText(ms)),
      exps |-> [i \in DOMAIN ms |-> next(process(ms[i]), k).e]] :
        k \in ParserConstants, ms \in NaryLists}

(***************************************************************************)
(* C23.  In an application of three or four expressions only the first     *)
(* pair is looked at for an operator: (M N P ...) is read as               *)
(* Application(N, M) when N is an Operator and as Application(M, N)        *)
(* otherwise, applied to P and then to each further expression in turn,    *)
(* whether or not these are Operators.  (a b and c) is read as             *)
(* (((a b) and) c).                                                        *)
(***************************************************************************)
C23_SwapOnce ==
    call.op = "next" =>
        \A c \in NaryCases :
            (c.consts = constants /\ call.buffer0 = c.buffer) =>
                LET m == c.exps
                    pair == IF m[2].class = "Operator"
                            THEN ApplicationExpression(m[2], m[1])
                            ELSE ApplicationExpression(m[1], m[2])
                    triple == ApplicationExpression(pair, m[3])
                IN  /\ result.kind = "ok"
                    /\ result.e = IF Len(m) = 3 THEN triple
                                  ELSE ApplicationExpression(triple, m[4])
                    /\ buffer = <<>>

\* (a b and c) has been read as (((a b) and) c).
C23_Witness ==
    /\ call.op = "next"
    /\ call.buffer0 = process(NaryText(<<<<"a">>, <<"b">>, N_and, <<"c">>>>))
    /\ result.kind = "ok"
    /\ result.e = ApplicationExpression(ApplicationExpression(
                      ApplicationExpression(VariableExpression(<<"a">>),
                                            VariableExpression(<<"b">>)),
                      Operator(N_and)), VariableExpression(<<"c">>))

NotTrained == [kind |-> "ValueError", msg |-> "Tagger is not trained"]

AlreadyTrained == [kind |-> "ValueError", msg |-> "Tagger is already trained"]

(***************************************************************************)
(* C24.  A tagger is trained before use and once only: tag_one called      *)
(* before any train() call raises ValueError('Tagger is not trained');     *)
(* once a train() call has completed, whatever the corpus and the cutoff,  *)
(* tag_one does not raise that error, and a further train() call raises    *)
(* ValueError('Tagger is already trained').                                *)
(***************************************************************************)
C24_TrainOnce ==
    /\ (call.op = "tag_one" /\ call.trains = 0) => result = NotTrained
    /\ (call.op = "tag_one" /\ call.trains > 0) => result # NotTrained
    /\ (call.op = "train" /\ call.trains0 > 0) => result = AlreadyTrained

(***************************************************************************)
(* C30.  The history Window of width w holds exactly w items: after        *)
(* construction and after every sequence of clear, append and set calls,   *)
(* set with fewer than w, with w and with more than w items; and append    *)
(* drops the oldest item and puts the new item last.                       *)
(***************************************************************************)
C30_FixedWidth ==
    tagger.class = "Ngram" =>
        /\ Len(tagger._history.items) = tagger._history._width
        /\ call.op = "Window.append" =>
              /\ result.kind = "ok"
              /\ tagger._history.items = Append(Tail(call.items0), call.item)

(***************************************************************************)
(* C25.  Equality of expressions is symmetric: a == b gives what b == a    *)
(* gives, for binders of one kind with different variables too, as \x.x    *)
(* against \y.x.                                                           *)
(***************************************************************************)
C25_Symmetric ==
    call.op = "equals" =>
        result.value = equals(call.other, call.self, call.c0).b

(***************************************************************************)
(* C26.  Free-variable law of substitution: for every term t, variable v,  *)
(* expression e and value of the counter, the free variables of            *)
(* t.replace(v, e) are those of t without v, with those of e, when v is    *)
(* free in t, and those of t otherwise.                                    *)
(***************************************************************************)
C26_FreeVariableLaw ==
    call.op = "replace" =>
        free(result.e) =
            IF call.variable \in free(call.self)
            THEN (free(call.self) \ {call.variable}) \cup free(call.expression)
            ELSE free(call.self)

(***************************************************************************)
(* C27.  Every request for a token ends: token(), destructive or not,      *)
(* returns a token that is not empty or raises Error('end of stream'),     *)
(* whatever the buffer holds, a buffer of blanks only included; and so     *)
(* every request for an expression ends.                                   *)
(***************************************************************************)
C27_TokenTerminates ==
    /\ call.op = "token" =>
          \/ result.kind = "ok" /\ result.tok # <<>>
          \/ result = [kind |-> "Error", msg |-> "end of stream"]
    /\ call.op = "next" => result.kind # "hang"

(***************************************************************************)
(* C28.  Every binder the parser builds binds a variable token: the name   *)
(* of each bound variable of a parsed expression passes isVariable (it is  *)
(* not \, '.', '(', ')', a binder keyword, an operator name or a declared  *)
(* constant); a text with another token in a binder's variable list, the   *)
(* first place included, is not read as an expression.                     *)
(***************************************************************************)
C28_BinderVariables ==
    (call.op = "next" /\ result.kind = "ok") =>
        \A v \in BoundVariables(result.e) : isVariable(v, constants)

\* e holds no application whose functor is a lambda abstraction, at any
\* depth.
RECURSIVE BetaNormal(_)
BetaNormal(e) ==
    CASE IsVariableBinderExpression(e) -> BetaNormal(e.term)
      [] IsApplicationExpression(e) ->
            /\ ~IsLambdaExpression(e.first)
            /\ BetaNormal(e.first)
            /\ BetaNormal(e.second)
      [] OTHER -> TRUE

(***************************************************************************)
(* C29.  Whenever simplify returns, its result is in beta-normal form: it  *)
(* holds no application whose functor is a lambda abstraction, at any      *)
(* depth, under lambda, some and all binders and in both operands of       *)
(* applications.                                                           *)
(***************************************************************************)
C29_BetaNormal ==
    (call.op = "simplify" /\ result.kind = "ok") => BetaNormal(result.e)

\* some y.all x.(P (\x.x y)), whose redex lies under two binders in the
\* second operand, has been simplified to some y.all x.(P y).
C29_Witness ==
    /\ call.op = "simplify"
    /\ IsVariableBinderExpression(call.self)
    /\ call.self.class = "SomeExpression"
    /\ ~BetaNormal(call.self)
    /\ result.kind = "ok"
    /\ result.e = SomeExpression(N_y, AllExpression(N_x,
                      ApplicationExpression(VariableExpression(N_P), Var_y)))

====
